---- MODULE Spec2Model ----
(***************************************************************************)
(* SAT sweeping of a combinational AIG (src/src/proof/cec/cecSat.c).  The  *)
(* state is the user's AIG with its simulation words, candidate classes    *)
(* (pReprs/pNexts), the per-object Value/fMark1 fields, the rebuilt AIG    *)
(* pNew and the position of Cec2_ManPerformSweeping in its own code.       *)
(***************************************************************************)
EXTENDS Integers, Sequences, FiniteSets, TLC

\* Bits of one simulation word (the code's words have 64 bits).
WordBits == 3
\* Gia_ManRandomW yields words in 0..MaxRand.
MaxRand == 3
\* Iter is only compared with 5 (line 897); the model stops counting above it.
IterCap == 6

GIA_VOID == 268435455
Unassigned == 0 - 1
NoNext == 0 - 1

\* the element of a one-element set: Only({ F(x) : x \in {e} }) is F(e) with e
\* evaluated once
Only(S) == CHOOSE x \in S : TRUE

RECURSIVE Pow2(_)
Pow2(n) == IF n = 0 THEN 1 ELSE 2 * Pow2(n - 1)

(***************************************************************************)
(* Literals                                                                *)
(***************************************************************************)
Abc_Var2Lit(v, c) == 2 * v + c
Abc_Lit2Var(l) == l \div 2
Abc_LitIsCompl(l) == l % 2
Abc_LitNot(l) == IF l % 2 = 1 THEN l - 1 ELSE l + 1
Abc_LitNotCond(l, c) == IF c = 1 THEN Abc_LitNot(l) ELSE l
Xor01(a, b) == IF a = b THEN 0 ELSE 1

(***************************************************************************)
(* The AIGs and parameters a run is started with.  Objects are numbered    *)
(* 0 (constant), 1..nCi (CIs), then the ANDs, then the COs.                *)
(***************************************************************************)
Aig(nCi, ands, cos) == [nCi |-> nCi, ands |-> ands, cos |-> cos]

\* two CIs a, b; n1 = a & b, n2 = a & b
AigTwoSame == Aig(2, << <<2, 4>>, <<2, 4>> >>, << >>)
\* two CIs and nothing else: three objects, so the hash table has three slots
AigNoAnd == Aig(2, << >>, << >>)
\* one CI a; COs a, !a, const1
AigCoCi == Aig(1, << >>, <<2, 3, 1>>)
\* one CI a; CO a
AigCoCiOnly == Aig(1, << >>, <<2>>)
\* f = a & b, g = a & !b; COs f & !g and !f & g
AigMiterDiff == Aig(2, << <<2, 4>>, <<2, 5>>, <<6, 9>>, <<7, 8>> >>, <<10, 12>>)
\* f = a & b, g = a & f; CO f & !g
AigMiterSame == Aig(2, << <<2, 4>>, <<2, 6>>, <<6, 9>> >>, <<10>>)

\* f = a & b, g = a & !f, h = a & !b, z = f & h, n = !h & !z
AigMerge == Aig(2, << <<2, 4>>, <<2, 7>>, <<2, 5>>, <<6, 10>>, <<11, 13>> >>, << >>)

\* AigMerge and k = b & n
AigMergeFanout ==
  Aig(2, << <<2, 4>>, <<2, 7>>, <<2, 5>>, <<6, 10>>, <<11, 13>>, <<4, 14>> >>, << >>)
\* AigMerge and k = n & n
AigMergeSelf ==
  Aig(2, << <<2, 4>>, <<2, 7>>, <<2, 5>>, <<6, 10>>, <<11, 13>>, <<14, 14>> >>, << >>)
\* three CIs a, b, c: f = a & b, g = a & !f, h = a & !b, z = f & h, n = !h & !z,
\* u = n & !c, v = u & b
AigMergeCone ==
  Aig(3, << <<2, 4>>, <<2, 9>>, <<2, 5>>, <<8, 12>>, <<13, 15>>, <<7, 16>>,
            <<4, 18>> >>, << >>)

\* p = a & !b, q = !a & b, x = !p & !q; r = a & b, s = !a & !b, y = !r & !s
AigXorPair ==
  Aig(2, << <<2, 5>>, <<3, 4>>, <<7, 9>>, <<2, 4>>, <<3, 5>>, <<13, 15>> >>, << >>)

\* three CIs a, b, c: n = a & b, m = a & c, k = !a & c
AigThreeDisproofs == Aig(3, << <<2, 4>>, <<2, 6>>, <<3, 6>> >>, << >>)

\* three CIs a, b, c: r = !a & !b, j = !c & r, i = !a & !b
AigDupMarked == Aig(3, << <<3, 5>>, <<7, 8>>, <<3, 5>> >>, << >>)

\* one CI a; n1 = a & a, n2 = a & a
AigSameFanin == Aig(1, << <<2, 2>>, <<2, 2>> >>, << >>)
\* two CIs a, b: x = a & b, n = a & !a, m = x & !x
AigConstZero == Aig(2, << <<2, 4>>, <<2, 3>>, <<6, 7>> >>, << >>)

\* three CIs c, a, b: ca = c & a, g = ca & b; p0 = c & !g, p1 = !c & !b,
\* n = !p0 & !p1 (n = c ? g : b); q0 = c & g, q1 = !c & b, m = !q0 & !q1 (m = !n)
AigMuxSuper ==
  Aig(3, << <<2, 4>>, <<8, 6>>, <<2, 11>>, <<3, 7>>, <<13, 15>>, <<2, 10>>, <<3, 6>>,
            <<19, 21>> >>, << >>)

\* three CIs c, a, b: p0 = c & !a, p1 = !c & b, n = !p0 & !p1 (n = c ? a : !b);
\* q0 = c & a, q1 = !c & !b, m = !q0 & !q1 (m = c ? !a : b = !n)
AigMuxCompl ==
  Aig(3, << <<2, 5>>, <<3, 6>>, <<9, 11>>, <<2, 4>>, <<3, 7>>, <<15, 17>> >>, << >>)

\* three CIs a, b, c: r = !a & !b, k = a & !r (k = a), i = !b & !c, j = k & c
AigTfoOfRepr == Aig(3, << <<3, 5>>, <<2, 9>>, <<5, 7>>, <<10, 6>> >>, << >>)

\* three CIs a, b, c: y = !a & !c, w = !y & b, z = c & w, x = a & w,
\* r = x & !z, i = w & !z
AigReprUnswept ==
  Aig(3, << <<3, 7>>, <<9, 4>>, <<6, 10>>, <<2, 10>>, <<14, 13>>, <<10, 13>> >>, << >>)

\* one CI a; n = !a & !a: three objects, so the hash table has three slots
AigNotCi == Aig(1, << <<3, 3>> >>, << >>)

\* the parameters; Cec2_SetDefaultParams gives nConfLimit = 1000
ParLimit(w, r, m, c) == [nSimWords |-> w, nSimRounds |-> r, fIsMiter |-> m, nConfLimit |-> c]
Par(w, r, m) == ParLimit(w, r, m, 1000)
\* prev is << >> in the first call and holds the classes and flags the first
\* call left when the AIG is swept a second time
Run(a, p, pool, undec) ==
  [aig |-> a, pars |-> p, pool |-> pool, undec |-> undec, prev |-> << >>]

AllWords == 0..MaxRand

Runs ==
  { Run(AigTwoSame, Par(1, 0, FALSE), AllWords, FALSE),
    Run(AigNoAnd, Par(1, 1, FALSE), AllWords, FALSE),
    Run(AigTwoSame, Par(1, 0, FALSE), {0, 3}, TRUE),
    Run(AigCoCi, Par(1, 0, TRUE), AllWords, FALSE),
    Run(AigCoCiOnly, Par(1, 1, TRUE), AllWords, FALSE),
    Run(AigMiterDiff, Par(1, 0, TRUE), AllWords, FALSE),
    Run(AigMiterSame, Par(1, 0, TRUE), AllWords, FALSE),
    Run(AigMerge, Par(1, 0, FALSE), {0, 1}, FALSE),
    Run(AigMergeFanout, Par(1, 0, FALSE), {0, 1}, FALSE),
    Run(AigMergeCone, Par(1, 0, FALSE), {1, 2}, FALSE),
    Run(AigXorPair, Par(1, 0, FALSE), {1, 2}, FALSE),
    Run(AigTwoSame, ParLimit(1, 0, FALSE, 1), {0, 3}, FALSE),
    Run(AigTwoSame, Par(0, 0, FALSE), {0}, FALSE),
    Run(AigCoCi, Par(0, 0, TRUE), {0}, FALSE),
    Run(AigThreeDisproofs, Par(1, 0, FALSE), {0}, FALSE),
    Run(AigDupMarked, Par(1, 0, FALSE), {1, 2}, FALSE),
    Run(AigSameFanin, Par(1, 0, FALSE), AllWords, FALSE),
    Run(AigConstZero, Par(1, 0, FALSE), AllWords, FALSE),
    Run(AigMuxSuper, Par(1, 0, FALSE), {1, 2}, FALSE),
    Run(AigNotCi, Par(1, 0, FALSE), AllWords, FALSE),
    Run(AigCoCi, Par(1, 1, FALSE), {0, 1}, FALSE),
    Run(AigMergeSelf, Par(1, 0, FALSE), {0, 1}, FALSE),
    Run(AigMuxCompl, Par(1, 0, FALSE), {1, 2}, FALSE),
    Run(AigTfoOfRepr, Par(1, 0, FALSE), {1, 2}, FALSE),
    Run(AigReprUnswept, Par(1, 0, FALSE), {0}, FALSE) }

VARIABLES
  run,        \* the AIG, the parameters and the random source of this call
  pc,         \* position in Cec2_ManPerformSweeping
  fPhase,     \* Gia_Obj_t::fPhase per object
  nSimWords,  \* Gia_Man_t::nSimWords (0 until Cec2_ManSimAlloc)
  vSims,      \* Gia_Man_t::vSims: object -> column -> bit
  iPatsPi,    \* Gia_Man_t::iPatsPi
  hasReprs,   \* pReprs != NULL
  iRepr,      \* pReprs[i].iRepr
  fProved,    \* pReprs[i].fProved
  fFailed,    \* pReprs[i].fFailed
  pNexts,     \* pNexts[i]
  Value,      \* Gia_Obj_t::Value of the user's AIG
  fMark1,     \* Gia_Obj_t::fMark1 of the user's AIG
  pNew,       \* the rebuilt AIG: sequence of objects, object v at position v+1
  vCopies,    \* pNew->vCopies: the CNF variable of object v at position v+1, or -1
  stage,      \* which simulation is running: "first", "round" or "sweep"
  Iter, fDisproved, iObj, iRound, iCls,
  cexPairs,   \* the pairs (repr, object) disproved in the current pass (vCexTriples)
  pCexSeq,    \* << >> or the counter-example record
  RetValue,   \* what Cec2_ManPerformSweeping returned (-1 while running)
  last        \* what the last step did (for stating the claims)

vars == << run, pc, stage, fPhase, nSimWords, vSims, iPatsPi, hasReprs, iRepr, fProved,
           fFailed, pNexts, Value, fMark1, pNew, vCopies, Iter, fDisproved, cexPairs, iObj, iRound,
           iCls, pCexSeq, RetValue, last >>

pAig == run.aig
pPars == run.pars

(***************************************************************************)
(* Structure of the user's AIG                                             *)
(***************************************************************************)
NumCi(a) == a.nCi
NumAnd(a) == Len(a.ands)
NumCo(a) == Len(a.cos)
ObjNum(a) == 1 + NumCi(a) + NumAnd(a) + NumCo(a)
Objs(a) == 0..(ObjNum(a) - 1)
FirstAnd(a) == 1 + NumCi(a)
FirstCo(a) == 1 + NumCi(a) + NumAnd(a)
CiIds(a) == 1..NumCi(a)
AndIds(a) == FirstAnd(a)..(FirstCo(a) - 1)
CoIds(a) == FirstCo(a)..(ObjNum(a) - 1)
ObjIsCi(a, i) == i \in CiIds(a)
ObjIsAnd(a, i) == i \in AndIds(a)
ObjIsCo(a, i) == i \in CoIds(a)
FaninLit0(a, i) == IF ObjIsAnd(a, i) THEN a.ands[i - FirstAnd(a) + 1][1]
                   ELSE a.cos[i - FirstCo(a) + 1]
FaninLit1(a, i) == a.ands[i - FirstAnd(a) + 1][2]
FaninId0(a, i) == Abc_Lit2Var(FaninLit0(a, i))
FaninId1(a, i) == Abc_Lit2Var(FaninLit1(a, i))
FaninC0(a, i) == Abc_LitIsCompl(FaninLit0(a, i))
FaninC1(a, i) == Abc_LitIsCompl(FaninLit1(a, i))

\* Values of all objects under one CI assignment asg (CI id -> 0/1), in object order.
\* the value of object k, given the values p of the objects before it
ObjValue(a, asg, p, k) ==
  IF k = 0 THEN 0
  ELSE IF ObjIsCi(a, k) THEN asg[k]
  ELSE IF ObjIsAnd(a, k)
    THEN IF Xor01(p[FaninId0(a, k) + 1], FaninC0(a, k)) = 1
            /\ Xor01(p[FaninId1(a, k) + 1], FaninC1(a, k)) = 1
         THEN 1 ELSE 0
  ELSE Xor01(p[FaninId0(a, k) + 1], FaninC0(a, k))

RECURSIVE EvalUpTo(_, _, _)
EvalUpTo(a, asg, k) ==
  IF k < 0 THEN << >>
  ELSE Only({ Append(p, ObjValue(a, asg, p, k)) : p \in { EvalUpTo(a, asg, k - 1) } })
EvalAig(a, asg) ==
  Only({ [i \in Objs(a) |-> s[i + 1]] : s \in { EvalUpTo(a, asg, ObjNum(a) - 1) } })
Assignments(a) == [CiIds(a) -> {0, 1}]
AllZero(a) == [c \in CiIds(a) |-> 0]

\* Gia_ManSetPhase: the value of every object under the all-zero CI assignment
Gia_ManSetPhase(a) == EvalAig(a, AllZero(a))

Init ==
  /\ run \in Runs
  /\ pc = "start"
  /\ stage = "first"
  /\ fPhase = [i \in Objs(run.aig) |-> 0]
  /\ nSimWords = 0
  /\ vSims = << >>
  /\ iPatsPi = 0
  /\ hasReprs = FALSE
  /\ iRepr = << >>
  /\ fProved = << >>
  /\ fFailed = << >>
  /\ pNexts = << >>
  /\ Value = [i \in Objs(run.aig) |-> Unassigned]
  /\ fMark1 = [i \in Objs(run.aig) |-> FALSE]
  /\ pNew = << >>
  /\ vCopies = << >>
  /\ Iter = 0
  /\ fDisproved = TRUE
  /\ cexPairs = {}
  /\ iObj = 0
  /\ iRound = 0
  /\ iCls = 0
  /\ pCexSeq = << >>
  /\ RetValue = 0 - 1
  /\ last = [op |-> "none"]


(***************************************************************************)
(* Bit-parallel simulation                                                 *)
(***************************************************************************)
NumCols(w) == WordBits * w
Cols(w) == 0..(NumCols(w) - 1)
WordBit(x, b) == (x \div Pow2(b)) % 2

\* a variant without the shift of word 0
ObjSimCiNoShift(w, rw) ==
  [c \in Cols(w) |-> WordBit(rw[c \div WordBits], c % WordBits)]

\* Cec2_ObjSimCi: W random words; word 0 is shifted left by one
Cec2_ObjSimCi(w, rw) ==
  [c \in Cols(w) |->
     IF c \div WordBits = 0
     THEN (IF c = 0 THEN 0 ELSE WordBit(rw[0], c - 1))
     ELSE WordBit(rw[c \div WordBits], c % WordBits)]

Cec2_ManSimulateCis(a, w, sims, rws) ==
  [i \in Objs(a) |-> IF ObjIsCi(a, i) THEN Cec2_ObjSimCi(w, rws[i]) ELSE sims[i]]

SimNot(s) == [c \in DOMAIN s |-> 1 - s[c]]
SimCond(s, c) == IF c = 1 THEN SimNot(s) ELSE s
SimAnd2(s, t) == [c \in DOMAIN s |-> IF s[c] = 1 /\ t[c] = 1 THEN 1 ELSE 0]

\* a variant that ignores the complement flag of the second fanin
ObjSimAndIgnoreC1(a, sims, i) ==
  SimAnd2(SimCond(sims[FaninId0(a, i)], FaninC0(a, i)), sims[FaninId1(a, i)])

Cec2_ObjSimAnd(a, sims, i) ==
  SimAnd2(SimCond(sims[FaninId0(a, i)], FaninC0(a, i)),
          SimCond(sims[FaninId1(a, i)], FaninC1(a, i)))

Cec2_ObjSimCo(a, sims, i) == SimCond(sims[FaninId0(a, i)], FaninC0(a, i))

\* the loop of Cec2_ManSimulate over the AND objects, in object order
RECURSIVE SimulateAnds(_, _, _)
SimulateAnds(a, sims, i) ==
  IF i >= FirstCo(a) THEN sims
  ELSE Only({ SimulateAnds(a, s1, i + 1) :
                s1 \in { [sims EXCEPT ![i] = Cec2_ObjSimAnd(a, sims, i)] } })

Cec2_ObjSimEqual(sims, i, j) ==
  IF sims[i][0] = sims[j][0] THEN sims[i] = sims[j]
  ELSE sims[i] = SimNot(sims[j])

\* Abc_TtFindFirstBit2: the lowest column holding 1, or -1
Abc_TtFindFirstBit2(s) ==
  IF \E c \in DOMAIN s : s[c] = 1
  THEN CHOOSE c \in DOMAIN s : s[c] = 1 /\ \A d \in DOMAIN s : s[d] = 1 => c <= d
  ELSE 0 - 1

\* a variant that reads the bit of CI number i from object i
DeriveCexFromObjI(a, sims, iOut, iPat) ==
  [iPo |-> iOut,
   pData |-> [k \in 0..(NumCi(a) - 1) |-> IF iPat = 0 - 1 THEN 0 ELSE sims[k][iPat]]]

\* Cec2_ManDeriveCex: bit i of pData is CI number i (object i+1)
Cec2_ManDeriveCex(a, sims, iOut, iPat) ==
  [iPo |-> iOut,
   pData |-> [k \in 0..(NumCi(a) - 1) |->
                IF iPat = 0 - 1 THEN 0 ELSE sims[k + 1][iPat]]]

\* Cec2_ManSimulateCos: simulates the COs in order up to the first one that is
\* not equal to the constant; returns the words and the counter-example (or << >>)
RECURSIVE SimulateCosFrom(_, _, _)
SimulateCosFrom(a, sims, i) ==
  IF i >= ObjNum(a) THEN [sims |-> sims, cex |-> << >>]
  ELSE Only({ IF Cec2_ObjSimEqual(s1, i, 0) THEN SimulateCosFrom(a, s1, i + 1)
              ELSE [sims |-> s1,
                    cex |-> Cec2_ManDeriveCex(a, s1, i - FirstCo(a),
                                              Abc_TtFindFirstBit2(s1[i]))] :
                s1 \in { [sims EXCEPT ![i] = Cec2_ObjSimCo(a, sims, i)] } })
Cec2_ManSimulateCos(a, sims) == SimulateCosFrom(a, sims, FirstCo(a))

(***************************************************************************)
(* Candidate classes: pReprs[i].iRepr and pNexts[i]                        *)
(***************************************************************************)
Gia_ObjIsHead(reprs, nexts, i) == reprs[i] = GIA_VOID /\ nexts[i] > 0

\* the objects on the list that starts at object i (i included), following pNexts
RECURSIVE ChainFrom(_, _, _)
ChainFrom(nexts, i, fuel) ==
  IF i <= 0 \/ fuel = 0 THEN << >>
  ELSE << i >> \o ChainFrom(nexts, nexts[i], fuel - 1)
ClassMembers(nexts, h) == ChainFrom(nexts, nexts[h], Cardinality(DOMAIN nexts) + 1)

s_Primes == << 1291, 1699, 1999, 2357, 2953, 3313, 3907, 4177,
               4831, 5147, 5647, 6343, 6899, 7103, 7873, 8147 >>

RECURSIVE BitXor(_, _)
BitXor(x, y) == IF x = 0 THEN y ELSE IF y = 0 THEN x
                ELSE Xor01(x % 2, y % 2) + 2 * BitXor(x \div 2, y \div 2)

\* the value of word k of a simulation vector, read as an unsigned number
RECURSIVE WordValue(_, _, _)
WordValue(s, k, b) ==
  IF b = WordBits THEN 0
  ELSE s[k * WordBits + b] * Pow2(b) + WordValue(s, k, b + 1)

\* a variant that never complements the words
RECURSIVE HashWordsAsIs(_, _, _)
HashWordsAsIs(s, k, nWords) ==
  IF k = nWords THEN 0
  ELSE BitXor(WordValue(s, k, 0) * s_Primes[(k % 16) + 1], HashWordsAsIs(s, k + 1, nWords))
HashKeyAsIs(s, nWords, nTableSize) == HashWordsAsIs(s, 0, nWords) % nTableSize

\* Cec2_ManSimHashKey: the words (complemented when the first bit is 1) are
\* multiplied by the primes and XORed, modulo the table size
RECURSIVE HashWords(_, _, _)
HashWords(s, k, nWords) ==
  IF k = nWords THEN 0
  ELSE BitXor(WordValue(SimCond(s, s[0]), k, 0) * s_Primes[(k % 16) + 1],
              HashWords(s, k + 1, nWords))
Cec2_ManSimHashKey(s, nWords, nTableSize) == HashWords(s, 0, nWords) % nTableSize

\* Abc_PrimeCudd: the first odd number from p on without an odd divisor
IsPrimeCudd(q) == q % 2 = 1 /\ \A d \in 3..q : (d % 2 = 1 /\ d * d <= q) => q % d # 0
Abc_PrimeCudd(p) == CHOOSE q \in p..(2 * p + 1) :
                      IsPrimeCudd(q) /\ \A r \in p..(q - 1) : ~IsPrimeCudd(r)

\* a variant in which the last object with a key owns the slot
RECURSIVE HashObjsLastOwner(_, _, _, _, _, _)
HashObjsLastOwner(a, sims, nWords, i, table, reprs) ==
  IF i = ObjNum(a) THEN reprs
  ELSE IF ObjIsCo(a, i)
    THEN HashObjsLastOwner(a, sims, nWords, i + 1, table, [reprs EXCEPT ![i] = GIA_VOID])
  ELSE Only({ IF table[Key] = 0 - 1
              THEN HashObjsLastOwner(a, sims, nWords, i + 1, [table EXCEPT ![Key] = i],
                                     [reprs EXCEPT ![i] = GIA_VOID])
              ELSE HashObjsLastOwner(a, sims, nWords, i + 1, [table EXCEPT ![Key] = i],
                                     [reprs EXCEPT ![i] = GIA_VOID, ![table[Key]] = i]) :
                Key \in { Cec2_ManSimHashKey(sims[i], nWords,
                                             Cardinality(DOMAIN table)) } })

\* lines 592-603: the first object with a key owns the slot, later ones get it as repr
RECURSIVE HashObjs(_, _, _, _, _, _)
HashObjs(a, sims, nWords, i, table, reprs) ==
  IF i = ObjNum(a) THEN reprs
  ELSE IF ObjIsCo(a, i)
    THEN HashObjs(a, sims, nWords, i + 1, table, [reprs EXCEPT ![i] = GIA_VOID])
  ELSE Only({ IF table[Key] = 0 - 1
              THEN HashObjs(a, sims, nWords, i + 1, [table EXCEPT ![Key] = i],
                            [reprs EXCEPT ![i] = GIA_VOID])
              ELSE HashObjs(a, sims, nWords, i + 1, table,
                            [reprs EXCEPT ![i] = table[Key]]) :
                Key \in { Cec2_ManSimHashKey(sims[i], nWords,
                                             Cardinality(DOMAIN table)) } })

\* a variant that pushes the objects in increasing order
RECURSIVE LinkObjsUp(_, _, _)
LinkObjsUp(reprs, nexts, i) ==
  IF i < 0 THEN nexts
  ELSE Only({ IF reprs[i] = GIA_VOID THEN n0
              ELSE [n0 EXCEPT ![i] = n0[reprs[i]], ![reprs[i]] = i] :
                n0 \in { LinkObjsUp(reprs, nexts, i - 1) } })

\* a variant that does not keep the rest of the list when it pushes an object
RECURSIVE LinkObjsDropRest(_, _, _)
LinkObjsDropRest(reprs, nexts, i) ==
  IF i < 0 THEN nexts
  ELSE IF reprs[i] = GIA_VOID THEN LinkObjsDropRest(reprs, nexts, i - 1)
  ELSE Only({ LinkObjsDropRest(reprs, n1, i - 1) :
                n1 \in { [nexts EXCEPT ![reprs[i]] = i] } })

\* lines 605-612: every object with a repr is pushed on the front of its repr's list
RECURSIVE LinkObjs(_, _, _)
LinkObjs(reprs, nexts, i) ==
  IF i < 0 THEN nexts
  ELSE IF reprs[i] = GIA_VOID THEN LinkObjs(reprs, nexts, i - 1)
  ELSE Only({ LinkObjs(reprs, n1, i - 1) :
                n1 \in { [nexts EXCEPT ![i] = nexts[reprs[i]], ![reprs[i]] = i] } })

\* Cec2_ManCreateClasses up to line 613 (the refinement loop follows it)
Cec2_ManCreateClasses(a, sims, nWords) ==
  Only({ [reprs |-> reprs,
          nexts |-> LinkObjs(reprs, [i \in Objs(a) |-> NoNext], ObjNum(a) - 1)] :
           reprs \in { HashObjs(a, sims, nWords, 0,
                                [k \in 0..(Abc_PrimeCudd(ObjNum(a)) - 1) |-> 0 - 1],
                                [i \in Objs(a) |-> 0]) } })

\* lines 549-554: skip the members equal to the head; returns the last equal
\* member (or the head) and the first member that differs (or its end mark)
RECURSIVE RefineScan(_, _, _, _, _)
RefineScan(sims, nexts, h, iPrev, iRepr2) ==
  IF iRepr2 > 0 /\ Cec2_ObjSimEqual(sims, h, iRepr2)
  THEN RefineScan(sims, nexts, h, iRepr2, nexts[iRepr2])
  ELSE [iPrev |-> iPrev, iRepr2 |-> iRepr2]

\* a variant in which every later object stays with the head
RECURSIVE RefineRelinkAllStay(_, _, _, _, _, _, _, _)
RefineRelinkAllStay(sims, reprs, nexts, h, iRepr2, iPrev, iPrev2, o) ==
  IF o <= 0
  THEN [reprs |-> reprs, nexts |-> [nexts EXCEPT ![iPrev] = NoNext, ![iPrev2] = NoNext]]
  ELSE Only({ RefineRelinkAllStay(sims, reprs, n1, h, iRepr2, o, iPrev2, n1[o]) :
                n1 \in { [nexts EXCEPT ![iPrev] = o] } })

\* a variant without line 571: a moved object keeps its representative
RECURSIVE RefineRelinkKeepRepr(_, _, _, _, _, _, _, _)
RefineRelinkKeepRepr(sims, reprs, nexts, h, iRepr2, iPrev, iPrev2, o) ==
  IF o <= 0
  THEN [reprs |-> reprs, nexts |-> [nexts EXCEPT ![iPrev] = NoNext, ![iPrev2] = NoNext]]
  ELSE IF Cec2_ObjSimEqual(sims, h, o)
    THEN Only({ RefineRelinkKeepRepr(sims, reprs, n1, h, iRepr2, o, iPrev2, n1[o]) :
                  n1 \in { [nexts EXCEPT ![iPrev] = o] } })
    ELSE Only({ RefineRelinkKeepRepr(sims, reprs, n1, h, iRepr2, iPrev, o, n1[o]) :
                  n1 \in { [nexts EXCEPT ![iPrev2] = o] } })

\* lines 562-575: relink the rest of the list
RECURSIVE RefineRelink(_, _, _, _, _, _, _, _)
RefineRelink(sims, reprs, nexts, h, iRepr2, iPrev, iPrev2, o) ==
  IF o <= 0
  THEN [reprs |-> reprs, nexts |-> [nexts EXCEPT ![iPrev] = NoNext, ![iPrev2] = NoNext]]
  ELSE IF Cec2_ObjSimEqual(sims, h, o)
    THEN Only({ RefineRelink(sims, reprs, n1, h, iRepr2, o, iPrev2, n1[o]) :
                  n1 \in { [nexts EXCEPT ![iPrev] = o] } })
    ELSE Only({ RefineRelink(sims, r1, n1, h, iRepr2, iPrev, o, n1[o]) :
                  r1 \in { [reprs EXCEPT ![o] = iRepr2] },
                  n1 \in { [nexts EXCEPT ![iPrev2] = o] } })

\* a variant that leaves the class as it is
RefineNothing(sims, reprs, nexts, h) == [reprs |-> reprs, nexts |-> nexts]

\* a variant that moves a class with a head above the constant into the class
\* of the constant
RefineIntoConstClass(sims, reprs, nexts, h) ==
  [reprs |-> [i \in DOMAIN reprs |-> IF h > 0 /\ (i = h \/ reprs[i] = h) THEN 0
                                     ELSE reprs[i]],
   nexts |-> nexts]

Cec2_ManSimClassRefineOne(sims, reprs, nexts, h) ==
  Only({ IF sc.iRepr2 <= 0 THEN [reprs |-> reprs, nexts |-> nexts]
         ELSE RefineRelink(sims, [reprs EXCEPT ![sc.iRepr2] = GIA_VOID], nexts, h,
                           sc.iRepr2, sc.iPrev, sc.iRepr2, nexts[sc.iRepr2]) :
           sc \in { RefineScan(sims, nexts, h, h, nexts[h]) } })

\* Gia_ManForEachClass0: the heads from object i on
HeadsFrom(a, reprs, nexts, i) ==
  { h \in Objs(a) : h >= i /\ Gia_ObjIsHead(reprs, nexts, h) }
Min(S) == CHOOSE x \in S : \A y \in S : x <= y

(***************************************************************************)
(* The rebuilt AIG pNew.  Object v is pNew[v + 1]; object 0 is the         *)
(* constant, objects 1..nCi are the CIs (Cec2_ManCreate).                  *)
(***************************************************************************)
NewObj(new, v) == new[v + 1]
NewNum(new) == Len(new)
NewConst == [kind |-> "const", lit0 |-> 0, lit1 |-> 0, fMark0 |-> FALSE, fPhase |-> 0]
NewCi == [kind |-> "ci", lit0 |-> 0, lit1 |-> 0, fMark0 |-> FALSE, fPhase |-> 0]
NewIsAnd(new, v) == NewObj(new, v).kind = "and"
NewIsCi(new, v) == NewObj(new, v).kind = "ci"

\* Gia_ObjIsMuxType of AND(l0, l1): both fanins complemented ANDs that share a
\* grandchild in opposite polarities
Gia_ObjIsMuxType(new, l0, l1) ==
  /\ Abc_LitIsCompl(l0) = 1 /\ Abc_LitIsCompl(l1) = 1
  /\ NewIsAnd(new, Abc_Lit2Var(l0)) /\ NewIsAnd(new, Abc_Lit2Var(l1))
  /\ LET p0 == NewObj(new, Abc_Lit2Var(l0))
         p1 == NewObj(new, Abc_Lit2Var(l1))
     IN \E x \in {p0.lit0, p0.lit1} : \E y \in {p1.lit0, p1.lit1} : x = Abc_LitNot(y)

\* Gia_ObjSetPhase of AND(l0, l1)
NewPhaseOfLit(new, l) == Xor01(NewObj(new, Abc_Lit2Var(l)).fPhase, Abc_LitIsCompl(l))
NewAnd(new, l0, l1) ==
  [kind |-> "and", lit0 |-> l0, lit1 |-> l1,
   fMark0 |-> Gia_ObjIsMuxType(new, l0, l1),
   fPhase |-> IF NewPhaseOfLit(new, l0) = 1 /\ NewPhaseOfLit(new, l1) = 1 THEN 1 ELSE 0]

\* a variant without the rule for a literal and its complement
HashAndNoComplRule(new, iLit0, iLit1) ==
  IF iLit0 < 2 THEN [new |-> new, lit |-> IF iLit0 = 1 THEN iLit1 ELSE 0]
  ELSE IF iLit1 < 2 THEN [new |-> new, lit |-> IF iLit1 = 1 THEN iLit0 ELSE 0]
  ELSE IF iLit0 = iLit1 THEN [new |-> new, lit |-> iLit1]
  ELSE LET l0 == IF iLit0 < iLit1 THEN iLit0 ELSE iLit1
           l1 == IF iLit0 < iLit1 THEN iLit1 ELSE iLit0
           found == { v \in 0..(NewNum(new) - 1) :
                        NewIsAnd(new, v) /\ NewObj(new, v).lit0 = l0
                                         /\ NewObj(new, v).lit1 = l1 }
       IN IF found # {}
          THEN [new |-> new, lit |-> Abc_Var2Lit(CHOOSE v \in found : TRUE, 0)]
          ELSE [new |-> Append(new, NewAnd(new, l0, l1)),
                lit |-> Abc_Var2Lit(NewNum(new), 0)]

\* Gia_ManHashAnd with the new object finished as in lines 874-880: constant
\* propagation, trivial cases, lookup of the ordered pair, else a new object
Gia_ManHashAnd(new, iLit0, iLit1) ==
  IF iLit0 < 2 THEN [new |-> new, lit |-> IF iLit0 = 1 THEN iLit1 ELSE 0]
  ELSE IF iLit1 < 2 THEN [new |-> new, lit |-> IF iLit1 = 1 THEN iLit0 ELSE 0]
  ELSE IF iLit0 = iLit1 THEN [new |-> new, lit |-> iLit1]
  ELSE IF iLit0 = Abc_LitNot(iLit1) THEN [new |-> new, lit |-> 0]
  ELSE LET l0 == IF iLit0 < iLit1 THEN iLit0 ELSE iLit1
           l1 == IF iLit0 < iLit1 THEN iLit1 ELSE iLit0
           found == { v \in 0..(NewNum(new) - 1) :
                        NewIsAnd(new, v) /\ NewObj(new, v).lit0 = l0
                                         /\ NewObj(new, v).lit1 = l1 }
       IN IF found # {}
          THEN [new |-> new, lit |-> Abc_Var2Lit(CHOOSE v \in found : TRUE, 0)]
          ELSE [new |-> Append(new, NewAnd(new, l0, l1)),
                lit |-> Abc_Var2Lit(NewNum(new), 0)]

\* the values of all objects of pNew under a CI assignment (CI object -> 0/1)
NewObjValue(o, asg, p, v) ==
  IF o.kind = "const" THEN 0
  ELSE IF o.kind = "ci" THEN asg[v]
  ELSE IF Xor01(p[Abc_Lit2Var(o.lit0) + 1], Abc_LitIsCompl(o.lit0)) = 1
          /\ Xor01(p[Abc_Lit2Var(o.lit1) + 1], Abc_LitIsCompl(o.lit1)) = 1
       THEN 1 ELSE 0

RECURSIVE NewEvalUpTo(_, _, _)
NewEvalUpTo(new, asg, v) ==
  IF v < 0 THEN << >>
  ELSE Only({ Append(p, NewObjValue(o, asg, p, v)) :
                p \in { NewEvalUpTo(new, asg, v - 1) }, o \in { NewObj(new, v) } })

\* Cec2_ManCollect_rec: the CIs of pNew reached from object v (vObjSatPairs)
RECURSIVE ConeCis(_, _)
ConeCis(new, v) ==
  IF v = 0 THEN {}
  ELSE IF NewIsCi(new, v) THEN {v}
  ELSE ConeCis(new, Abc_Lit2Var(NewObj(new, v).lit0))
         \cup ConeCis(new, Abc_Lit2Var(NewObj(new, v).lit1))

(***************************************************************************)
(* CNF variables of pNew (vCopies, read by Cec2_ObjSatId): -1 or the       *)
(* number satoko_add_variable returned.  st is [copies, nVars, frontier].  *)
(***************************************************************************)
SatId(copies, v) == copies[v + 1]
PushUnique(seq, x) == IF \E k \in DOMAIN seq : seq[k] = x THEN seq ELSE Append(seq, x)

\* Cec2_CollectSuper_rec: the leaves of the conjunction tree under literal l; the
\* objects of pNew keep Value = 0, so the fanout test of line 268 never fires
RECURSIVE Cec2_CollectSuper_rec(_, _, _, _)
Cec2_CollectSuper_rec(new, l, fFirst, vSuper) ==
  IF Abc_LitIsCompl(l) = 1 \/ NewIsCi(new, Abc_Lit2Var(l))
       \/ NewObj(new, Abc_Lit2Var(l)).fMark0
  THEN PushUnique(vSuper, l)
  ELSE Only({ Cec2_CollectSuper_rec(new, NewObj(new, Abc_Lit2Var(l)).lit1, FALSE, s1) :
                s1 \in { Cec2_CollectSuper_rec(new, NewObj(new, Abc_Lit2Var(l)).lit0,
                                              FALSE, vSuper) } })
Cec2_CollectSuper(new, v) == Cec2_CollectSuper_rec(new, Abc_Var2Lit(v, 0), TRUE, << >>)

\* lines 320-323: the four grandchildren of a MUX-type object, each once
MuxFanins(new, v) ==
  LET f0 == NewObj(new, Abc_Lit2Var(NewObj(new, v).lit0))
      f1 == NewObj(new, Abc_Lit2Var(NewObj(new, v).lit1))
  IN PushUnique(PushUnique(PushUnique(PushUnique(<< >>,
       Abc_Var2Lit(Abc_Lit2Var(f0.lit0), 0)), Abc_Var2Lit(Abc_Lit2Var(f1.lit0), 0)),
       Abc_Var2Lit(Abc_Lit2Var(f0.lit1), 0)), Abc_Var2Lit(Abc_Lit2Var(f1.lit1), 0))

\* Cec2_ObjAddToFrontier: an object without variable gets the next one; an AND
\* is put on the frontier
Cec2_ObjAddToFrontier(new, st, v) ==
  IF SatId(st.copies, v) >= 0 THEN st
  ELSE [copies |-> [st.copies EXCEPT ![v + 1] = st.nVars],
        nVars |-> st.nVars + 1,
        frontier |-> IF NewIsAnd(new, v) THEN Append(st.frontier, v) ELSE st.frontier]

RECURSIVE AddFanins(_, _, _, _)
AddFanins(new, st, vFanins, k) ==
  IF k > Len(vFanins) THEN st
  ELSE Only({ AddFanins(new, st1, vFanins, k + 1) :
                st1 \in { Cec2_ObjAddToFrontier(new, st, Abc_Lit2Var(vFanins[k])) } })

\* lines 312-335: the frontier is explored from position i on
RECURSIVE ExploreFrontier(_, _, _)
ExploreFrontier(new, st, i) ==
  IF i > Len(st.frontier) THEN st
  ELSE Only({ ExploreFrontier(new, st1, i + 1) :
                st1 \in { AddFanins(new, st,
                                    IF NewObj(new, st.frontier[i]).fMark0
                                    THEN MuxFanins(new, st.frontier[i])
                                    ELSE Cec2_CollectSuper(new, st.frontier[i]), 1) } })

\* Cec2_ObjGetCnfVar: the variables of object v and of the leaves below it
Cec2_ObjGetCnfVar(new, st, v) ==
  IF SatId(st.copies, v) >= 0 THEN st
  ELSE IF NewIsCi(new, v)
    THEN [st EXCEPT !.copies = [st.copies EXCEPT ![v + 1] = st.nVars],
                    !.nVars = st.nVars + 1]
  ELSE Only({ ExploreFrontier(new, st1, 1) :
                st1 \in { Cec2_ObjAddToFrontier(new, [st EXCEPT !.frontier = << >>], v) } })

\* the objects Cec2_ManCollect_rec visits from object v
RECURSIVE ConeObjs(_, _)
ConeObjs(new, v) ==
  IF NewIsAnd(new, v)
  THEN {v} \cup ConeObjs(new, Abc_Lit2Var(NewObj(new, v).lit0))
           \cup ConeObjs(new, Abc_Lit2Var(NewObj(new, v).lit1))
  ELSE {v}

\* a variant that collects the two roots only
CollectRoots(new, copies, iObj0, iObj1) == {iObj0, iObj1}

\* lines 762-766: vNodesNew, the visited objects that have a variable
Cec2_ManCollect(new, copies, iObj0, iObj1) ==
  { v \in ConeObjs(new, iObj0) \cup ConeObjs(new, iObj1) : SatId(copies, v) >= 0 }

\* lines 755-757: the variables a call of Cec2_ManSolveTwo creates; the solver
\* has no variable when the call starts (line 754)
SolveVars(new, copies, iObj0, iObj1) ==
  Only({ Cec2_ObjGetCnfVar(new, st1, iObj1).copies :
           st1 \in { Cec2_ObjGetCnfVar(new,
                       [copies |-> IF iObj0 = 0 THEN [copies EXCEPT ![1] = 0] ELSE copies,
                        nVars |-> IF iObj0 = 0 THEN 1 ELSE 0,
                        frontier |-> << >>], iObj0) } })

\* lines 783-784: Cec2_ObjCleanSatId for every object of vNodesNew
CleanSatIds(copies, vNodesNew) ==
  [k \in DOMAIN copies |-> IF (k - 1) \in vNodesNew THEN 0 - 1 ELSE copies[k]]

\* Gia_ObjRecognizeMux of a MUX-type object v: the control (uncomplemented) and
\* the then/else literals; the pairs of grandchildren are tried in the order
\* (1,1), (0,0), (0,1), (1,0)
Gia_ObjRecognizeMux(new, v) ==
  LET p0 == NewObj(new, Abc_Lit2Var(NewObj(new, v).lit0))
      p1 == NewObj(new, Abc_Lit2Var(NewObj(new, v).lit1))
      Shared(x, y) == Abc_Lit2Var(x) = Abc_Lit2Var(y) /\ x # y
      Pick(x, ox, y, oy) ==
        IF Abc_LitIsCompl(x) = 1
        THEN [i |-> y, t |-> Abc_LitNot(oy), e |-> Abc_LitNot(ox)]
        ELSE [i |-> x, t |-> Abc_LitNot(ox), e |-> Abc_LitNot(oy)]
  IN IF Shared(p0.lit1, p1.lit1) THEN Pick(p0.lit1, p0.lit0, p1.lit1, p1.lit0)
     ELSE IF Shared(p0.lit0, p1.lit0) THEN Pick(p0.lit0, p0.lit1, p1.lit0, p1.lit1)
     ELSE IF Shared(p0.lit0, p1.lit1) THEN Pick(p0.lit0, p0.lit1, p1.lit1, p1.lit0)
     ELSE Pick(p0.lit1, p0.lit0, p1.lit0, p1.lit1)

\* a variant that takes t and e without their complement flags
AddClausesMuxNoCompl(new, copies, v) ==
  LET m == Gia_ObjRecognizeMux(new, v)
      VarF == SatId(copies, v)
      VarI == SatId(copies, Abc_Lit2Var(m.i))
      VarT == SatId(copies, Abc_Lit2Var(m.t))
      VarE == SatId(copies, Abc_Lit2Var(m.e))
  IN << << Abc_Var2Lit(VarI, 1), Abc_Var2Lit(VarT, 1), Abc_Var2Lit(VarF, 0) >>,
        << Abc_Var2Lit(VarI, 1), Abc_Var2Lit(VarT, 0), Abc_Var2Lit(VarF, 1) >>,
        << Abc_Var2Lit(VarI, 0), Abc_Var2Lit(VarE, 1), Abc_Var2Lit(VarF, 0) >>,
        << Abc_Var2Lit(VarI, 0), Abc_Var2Lit(VarE, 0), Abc_Var2Lit(VarF, 1) >> >>
     \o (IF VarT = VarE THEN << >>
         ELSE << << Abc_Var2Lit(VarT, 0), Abc_Var2Lit(VarE, 0), Abc_Var2Lit(VarF, 1) >>,
                 << Abc_Var2Lit(VarT, 1), Abc_Var2Lit(VarE, 1), Abc_Var2Lit(VarF, 0) >> >>)

\* Cec2_AddClausesMux: the clauses handed to satoko_add_clause for f = ITE(i, t, e),
\* in the order of the calls; the last two are left out when VarT = VarE
Cec2_AddClausesMux(new, copies, v) ==
  LET m == Gia_ObjRecognizeMux(new, v)
      VarF == SatId(copies, v)
      VarI == SatId(copies, Abc_Lit2Var(m.i))
      VarT == SatId(copies, Abc_Lit2Var(m.t))
      VarE == SatId(copies, Abc_Lit2Var(m.e))
      fCompT == Abc_LitIsCompl(m.t)
      fCompE == Abc_LitIsCompl(m.e)
  IN << << Abc_Var2Lit(VarI, 1), Abc_Var2Lit(VarT, 1 - fCompT), Abc_Var2Lit(VarF, 0) >>,
        << Abc_Var2Lit(VarI, 1), Abc_Var2Lit(VarT, fCompT), Abc_Var2Lit(VarF, 1) >>,
        << Abc_Var2Lit(VarI, 0), Abc_Var2Lit(VarE, 1 - fCompE), Abc_Var2Lit(VarF, 0) >>,
        << Abc_Var2Lit(VarI, 0), Abc_Var2Lit(VarE, fCompE), Abc_Var2Lit(VarF, 1) >> >>
     \o (IF VarT = VarE THEN << >>
         ELSE << << Abc_Var2Lit(VarT, fCompT), Abc_Var2Lit(VarE, fCompE),
                    Abc_Var2Lit(VarF, 1) >>,
                 << Abc_Var2Lit(VarT, 1 - fCompT), Abc_Var2Lit(VarE, 1 - fCompE),
                    Abc_Var2Lit(VarF, 0) >> >>)

\* a variant that takes every leaf without its complement flag
AddClausesSuperNoCompl(new, copies, v, vSuper) ==
  [k \in 1..Len(vSuper) |->
     << Abc_Var2Lit(SatId(copies, Abc_Lit2Var(vSuper[k])), 0),
        Abc_Var2Lit(SatId(copies, v), 1) >>]
  \o << [k \in 1..(Len(vSuper) + 1) |->
           IF k <= Len(vSuper)
           THEN Abc_Var2Lit(SatId(copies, Abc_Lit2Var(vSuper[k])), 1)
           ELSE Abc_Var2Lit(SatId(copies, v), 0)] >>

\* a variant that adds the clause of all leaves only
AddClausesSuperLast(new, copies, v, vSuper) ==
  << [k \in 1..(Len(vSuper) + 1) |->
        IF k <= Len(vSuper)
        THEN Abc_Var2Lit(SatId(copies, Abc_Lit2Var(vSuper[k])),
                         1 - Abc_LitIsCompl(vSuper[k]))
        ELSE Abc_Var2Lit(SatId(copies, v), 0)] >>

\* Cec2_AddClausesSuper: one clause of two literals for every leaf of vSuper,
\* then one clause with all leaves and the object
Cec2_AddClausesSuper(new, copies, v, vSuper) ==
  [k \in 1..Len(vSuper) |->
     << Abc_Var2Lit(SatId(copies, Abc_Lit2Var(vSuper[k])), Abc_LitIsCompl(vSuper[k])),
        Abc_Var2Lit(SatId(copies, v), 1) >>]
  \o << [k \in 1..(Len(vSuper) + 1) |->
           IF k <= Len(vSuper)
           THEN Abc_Var2Lit(SatId(copies, Abc_Lit2Var(vSuper[k])),
                            1 - Abc_LitIsCompl(vSuper[k]))
           ELSE Abc_Var2Lit(SatId(copies, v), 0)] >>

\* lines 316-333: what Cec2_ObjGetCnfVar hands to the solver for frontier object
\* v, once v and its leaves have their variables; var is the variable of v and
\* lits the literals of the solver for <<i, t, e>> of a MUX or for the leaves
NodeCnf(new, copies, v) ==
  IF NewObj(new, v).fMark0
  THEN [obj |-> v, mux |-> TRUE, leaves |-> MuxFanins(new, v),
        sameTE |-> SatId(copies, Abc_Lit2Var(Gia_ObjRecognizeMux(new, v).t))
                     = SatId(copies, Abc_Lit2Var(Gia_ObjRecognizeMux(new, v).e)),
        var |-> SatId(copies, v),
        lits |-> [k \in 1..3 |->
                    Only({ Abc_Var2Lit(SatId(copies, Abc_Lit2Var(l)), Abc_LitIsCompl(l)) :
                             l \in { << m.i, m.t, m.e >>[k] :
                                       m \in { Gia_ObjRecognizeMux(new, v) } } })],
        clauses |-> Cec2_AddClausesMux(new, copies, v)]
  ELSE [obj |-> v, mux |-> FALSE, leaves |-> Cec2_CollectSuper(new, v),
        sameTE |-> FALSE,
        var |-> SatId(copies, v),
        lits |-> [k \in DOMAIN Cec2_CollectSuper(new, v) |->
                    Only({ Abc_Var2Lit(SatId(copies, Abc_Lit2Var(l)), Abc_LitIsCompl(l)) :
                             l \in { Cec2_CollectSuper(new, v)[k] } })],
        clauses |-> Cec2_AddClausesSuper(new, copies, v, Cec2_CollectSuper(new, v))]

\* the clauses of one call of Cec2_ManSolveTwo: every AND object that got a
\* variable was put on the frontier once (line 293) and explored there
QueryCnf(new, copies) ==
  { NodeCnf(new, copies, v) :
      v \in { u \in 0..(NewNum(new) - 1) : NewIsAnd(new, u) /\ SatId(copies, u) >= 0 } }

(***************************************************************************)
(* Cec2_ManSolveTwo.  The solver is the black box of the engine: on the    *)
(* clauses of the two cones it answers SAT with a model, UNSAT, or UNDEC.  *)
(* The clauses define every variable as the function of its object in      *)
(* pNew, so a model is a CI assignment and the answer is decided by the    *)
(* functions of the two objects.                                           *)
(***************************************************************************)
\* the models of one call satoko_solve under (var0 = v0, var1 = v1)
SolveModels(a, new, o0, o1, v0, v1) ==
  { asg \in Assignments(a) :
      \E p \in { NewEvalUpTo(new, asg, o1) } : p[o0 + 1] = v0 /\ p[o1 + 1] = v1 }

\* the numbers of conflicts a call of the solver may meet (stats.n_conflicts)
ConflictCounts == {0, 2}

\* the values of <<iVar0, iVar1>> if the assumption literals were read as values
\* instead of as complement flags
DirectAssumpAsValues(fPh) == << 1, fPh >>

\* lines 767-768: the assumptions Abc_Var2Lit(iVar0, 1) and
\* Abc_Var2Lit(iVar1, fPhase) of the direct query, as the values they force on
\* <<iVar0, iVar1>>: a literal with complement flag c forces its variable to 1 - c
DirectAssump(fPh) == << 0, 1 - fPh >>

\* lines 775-776: the assumptions Abc_Var2Lit(iVar0, 0) and
\* Abc_Var2Lit(iVar1, !fPhase) of the reverse query, as values
ReverseAssump(fPh) == << 1, fPh >>

\* lines 751-785: the set of possible results [status, model, cone, nSolves,
\* query, copies, vars, cnf, conflicts]: query is <<iObj0, iObj1, fPhase>> after
\* the swap of line 752, nSolves the number of satoko_solve calls, copies is
\* vCopies when the call returns, vars the objects that had a variable during
\* the call.  The solver is the one satoko_create
\* made at line 648; pPars->nConfLimit is read nowhere, so the answer does not
\* depend on it
Cec2_ManSolveTwo(a, new, copies, iObjA, iObjB, fPh, mayUndec) ==
  LET iObj0 == IF iObjB < iObjA THEN iObjB ELSE iObjA
      iObj1 == IF iObjB < iObjA THEN iObjA ELSE iObjB
  IN UNION {
       (IF direct # {}
        THEN { [status |-> "SAT", model |-> [c \in cone |-> asg[c]], cone |-> cone,
                nSolves |-> 1, query |-> << iObj0, iObj1, fPh >>, copies |-> after, vars |-> vs,
                cnf |-> cnf, conflicts |-> nc] :
                 asg \in direct, nc \in ConflictCounts }
        ELSE IF reverse # {}
        THEN { [status |-> "SAT", model |-> [c \in cone |-> asg[c]], cone |-> cone,
                nSolves |-> 2, query |-> << iObj0, iObj1, fPh >>, copies |-> after, vars |-> vs,
                cnf |-> cnf, conflicts |-> nc] :
                 asg \in reverse, nc \in ConflictCounts }
        ELSE { [status |-> "UNSAT", model |-> << >>, cone |-> cone,
                nSolves |-> IF iObj0 > 0 THEN 2 ELSE 1, query |-> << iObj0, iObj1, fPh >>,
                copies |-> after,
                vars |-> vs, cnf |-> cnf, conflicts |-> nc] : nc \in ConflictCounts })
       \cup (IF mayUndec
             THEN { [status |-> "UNDEC", model |-> << >>, cone |-> cone,
                     nSolves |-> n, query |-> << iObj0, iObj1, fPh >>, copies |-> after,
                     vars |-> vs, cnf |-> cnf, conflicts |-> nc] :
                      nc \in ConflictCounts,
                      n \in {1} \cup (IF direct = {} /\ iObj0 > 0 THEN {2} ELSE {}) }
             ELSE {}) :
         cone \in { ConeCis(new, iObj0) \cup ConeCis(new, iObj1) },
         direct \in { SolveModels(a, new, iObj0, iObj1,
                                   DirectAssump(fPh)[1], DirectAssump(fPh)[2]) },
         reverse \in { IF iObj0 > 0
                        THEN SolveModels(a, new, iObj0, iObj1,
                                         ReverseAssump(fPh)[1], ReverseAssump(fPh)[2])
                        ELSE {} },
         after \in { Only({ CleanSatIds(cp, Cec2_ManCollect(new, cp, iObj0, iObj1)) :
                              cp \in { SolveVars(new, copies, iObj0, iObj1) } }) },
         vs \in { Only({ { v \in 0..(NewNum(new) - 1) : SatId(cp, v) >= 0 } :
                           cp \in { SolveVars(new, copies, iObj0, iObj1) } }) },
         cnf \in { Only({ QueryCnf(new, cp) :
                            cp \in { SolveVars(new, copies, iObj0, iObj1) } }) } }

\* a variant that clears column iPat of every object outside the model
SetInputBitsClearRest(sims, iPat, model) ==
  [i \in DOMAIN sims |->
     [sims[i] EXCEPT ![iPat] = IF i \in DOMAIN model THEN model[i] ELSE 0]]

\* Cec2_ObjSimSetInputBit for every pair of vObjSatPairs, at column iPat
SetInputBits(sims, iPat, model) ==
  [i \in DOMAIN sims |->
     IF i \in DOMAIN model THEN [sims[i] EXCEPT ![iPat] = model[i]] ELSE sims[i]]

(***************************************************************************)
(* Cec2_ManPerformSweeping, one action per step of its code                *)
(***************************************************************************)
Done(ret) == /\ pc' = "done"
             /\ RetValue' = ret

\* where the code goes after a simulation (with its CO check) has passed
AfterSimPc == IF stage = "first" THEN "classes" ELSE "loop"

\* a variant that takes the last CO whose phase is 1
LastFailingCo(a, ph) ==
  CHOOSE i \in CoIds(a) : ph[i] = 1 /\ \A j \in CoIds(a) : ph[j] = 1 => j <= i

\* lines 827-832: the first CO whose phase is 1
FirstFailingCo(a, ph) == Min({ i \in CoIds(a) : ph[i] = 1 })

\* a variant in which the sweep loop makes one pass only
SweepLoopOnce(fDis) == "destroy"

\* line 857: the sweep loop goes on while the last pass disproved something
SweepLoopPc(fDis) == IF fDis THEN "cis" ELSE "destroy"

\* lines 824-833: phases, and the all-zero check of a miter
Start ==
  /\ pc = "start"
  /\ \E ph \in { Gia_ManSetPhase(pAig) } :
     LET bad == { i \in CoIds(pAig) : ph[i] = 1 }
     IN /\ fPhase' = ph
        /\ IF pPars.fIsMiter /\ bad # {}
           THEN /\ pCexSeq' = Cec2_ManDeriveCex(pAig, vSims,
                                                 FirstFailingCo(pAig, ph) - FirstCo(pAig),
                                                 0 - 1)
                /\ Done(0)
                /\ last' = [op |-> "cex0"]
           ELSE /\ pc' = "alloc"
                /\ last' = [op |-> "phase"]
                /\ UNCHANGED << pCexSeq, RetValue >>
  /\ UNCHANGED << run, stage, nSimWords, vSims, iPatsPi, hasReprs, iRepr, fProved,
                  fFailed, pNexts, Value, fMark1, pNew, vCopies, Iter, fDisproved, cexPairs, iObj,
                  iRound, iCls >>

\* line 836, Cec2_ManSimAlloc: zeroed words for every object
SimAlloc ==
  /\ pc = "alloc"
  /\ nSimWords' = pPars.nSimWords
  /\ vSims' = [i \in Objs(pAig) |-> [c \in Cols(pPars.nSimWords) |-> 0]]
  /\ pc' = "cis"
  /\ last' = [op |-> "alloc"]
  /\ UNCHANGED << run, stage, fPhase, iPatsPi, hasReprs, iRepr, fProved, fFailed,
                  pNexts, Value, fMark1, pNew, vCopies, Iter, fDisproved, cexPairs, iObj, iRound, iCls,
                  pCexSeq, RetValue >>

\* lines 837, 848, 859-861: Cec2_ManSimulateCis; in the sweep loop it opens a pass.
\* Without words (nSimWords < 1) pSim[0] of line 429 is outside the storage:
\* the bounds assertion of the vector fails or the write faults
SimulateCis ==
  /\ pc = "cis"
  /\ IF nSimWords < 1
     THEN /\ pc' = "abort"
          /\ \E how \in {"assert", "fault"} : last' = [op |-> "nowords", how |-> how]
          /\ UNCHANGED << vSims, iPatsPi, fDisproved, cexPairs, iObj >>
     ELSE /\ \E rws \in [CiIds(pAig) -> [0..(nSimWords - 1) -> run.pool]] :
               vSims' = Cec2_ManSimulateCis(pAig, nSimWords, vSims, rws)
          /\ iPatsPi' = 1
          /\ IF stage = "sweep"
             THEN /\ fDisproved' = FALSE
                  \* line 861: Vec_IntClear( vCexTriples )
                  /\ cexPairs' = {}
                  /\ iObj' = FirstAnd(pAig)
                  /\ pc' = "visit"
             ELSE /\ pc' = "sim"
                  /\ UNCHANGED << fDisproved, cexPairs, iObj >>
          /\ last' = [op |-> "cis"]
  /\ UNCHANGED << run, stage, fPhase, nSimWords, hasReprs, iRepr, fProved, fFailed,
                  pNexts, Value, fMark1, pNew, vCopies, Iter, iRound, iCls, pCexSeq,
                  RetValue >>

\* lines 479-482 of Cec2_ManSimulate: the ANDs are simulated; with classes the
\* refinement loop follows
Simulate ==
  /\ pc = "sim"
  /\ vSims' = SimulateAnds(pAig, vSims, FirstAnd(pAig))
  /\ IF hasReprs
     THEN pc' = "refine" /\ iCls' = 0
     ELSE pc' = (IF pPars.fIsMiter THEN "cos" ELSE AfterSimPc) /\ UNCHANGED iCls
  /\ last' = [op |-> "sim"]
  /\ UNCHANGED << run, stage, fPhase, nSimWords, iPatsPi, hasReprs, iRepr, fProved,
                  fFailed, pNexts, Value, fMark1, pNew, vCopies, Iter, fDisproved, cexPairs, iObj,
                  iRound, pCexSeq, RetValue >>

\* lines 495-496 and 614-615: Gia_ManForEachClass0 calls Cec2_ManSimClassRefineOne
\* for the next head; after the last head the loop ends
RefineStep ==
  /\ pc \in {"refine", "crefine"}
  /\ LET heads == HeadsFrom(pAig, iRepr, pNexts, iCls)
     IN IF heads # {}
        THEN \E h \in { Min(heads) } :
             \E r \in { Cec2_ManSimClassRefineOne(vSims, iRepr, pNexts, h) } :
                /\ iRepr' = r.reprs
                /\ pNexts' = r.nexts
                /\ iCls' = h + 1
                /\ pc' = pc
                /\ last' = [op |-> "refine", head |-> h, split |-> r.reprs # iRepr]
        ELSE /\ pc' = (IF pc = "crefine" THEN "loop"
                       ELSE IF pPars.fIsMiter THEN "cos" ELSE AfterSimPc)
             /\ last' = [op |-> "refined"]
             /\ UNCHANGED << iRepr, pNexts, iCls >>
  /\ UNCHANGED << run, stage, fPhase, nSimWords, vSims, iPatsPi, hasReprs, fProved,
                  fFailed, Value, fMark1, pNew, vCopies, Iter, fDisproved, cexPairs, iObj, iRound,
                  pCexSeq, RetValue >>

\* lines 839-840, 850-851, 907-908: Cec2_ManSimulateCos of a miter
SimulateCos ==
  /\ pc = "cos"
  /\ \E r \in { Cec2_ManSimulateCos(pAig, vSims) } :
        /\ vSims' = r.sims
        /\ pCexSeq' = IF r.cex # << >> THEN r.cex ELSE pCexSeq
        /\ IF r.cex = << >>
           THEN pc' = AfterSimPc /\ UNCHANGED RetValue /\ last' = [op |-> "cos"]
           ELSE IF stage = "sweep"
             THEN pc' = "destroy" /\ UNCHANGED RetValue /\ last' = [op |-> "cex"]
             ELSE Done(0) /\ last' = [op |-> "cex"]
  /\ UNCHANGED << run, stage, fPhase, nSimWords, iPatsPi, hasReprs, iRepr, fProved,
                  fFailed, pNexts, Value, fMark1, pNew, vCopies, Iter, fDisproved, cexPairs, iObj,
                  iRound, iCls >>

\* line 841: Cec2_ManCreateClasses up to its refinement loop
CreateClasses ==
  /\ pc = "classes"
  /\ \E r \in { Cec2_ManCreateClasses(pAig, vSims, nSimWords) } :
        /\ iRepr' = r.reprs
        /\ pNexts' = r.nexts
  /\ hasReprs' = TRUE
  /\ fProved' = [i \in Objs(pAig) |-> FALSE]
  /\ fFailed' = [i \in Objs(pAig) |-> FALSE]
  /\ pc' = "crefine"
  /\ iCls' = 0
  /\ last' = [op |-> "classes"]
  /\ UNCHANGED << run, stage, fPhase, nSimWords, vSims, iPatsPi, Value, fMark1, pNew, vCopies,
                  Iter, fDisproved, cexPairs, iObj, iRound, pCexSeq, RetValue >>

\* lines 846-857 and 910-912: the heads of the two loops
Loop ==
  /\ pc = "loop"
  /\ IF stage = "first"
     THEN /\ stage' = "round"
          /\ pc' = (IF 0 < pPars.nSimRounds THEN "cis" ELSE "create")
          /\ UNCHANGED << iRound, Iter >>
     ELSE IF stage = "round"
     THEN /\ iRound' = iRound + 1
          /\ pc' = (IF iRound + 1 < pPars.nSimRounds THEN "cis" ELSE "create")
          /\ UNCHANGED << stage, Iter >>
     ELSE /\ Iter' = (IF Iter < IterCap THEN Iter + 1 ELSE Iter)
          /\ pc' = SweepLoopPc(fDisproved)
          /\ UNCHANGED << stage, iRound >>
  /\ last' = [op |-> "loop"]
  /\ UNCHANGED << run, fPhase, nSimWords, vSims, iPatsPi, hasReprs, iRepr, fProved,
                  fFailed, pNexts, Value, fMark1, pNew, vCopies, fDisproved, cexPairs, iObj, iCls,
                  pCexSeq, RetValue >>

\* line 856, Cec2_ManCreate: pNew gets the constant and the CIs
ManCreate ==
  /\ pc = "create"
  /\ pNew' = << NewConst >> \o [k \in 1..NumCi(pAig) |-> NewCi]
  \* line 642: Vec_IntFill( vCopies, Gia_ManObjNum(pNew), -1 )
  /\ vCopies' = [k \in 1..(1 + NumCi(pAig)) |-> 0 - 1]
  /\ Value' = [i \in Objs(pAig) |->
                 IF i = 0 THEN 0
                 ELSE IF ObjIsCi(pAig, i) THEN Abc_Var2Lit(i, 0) ELSE Unassigned]
  /\ stage' = "sweep"
  /\ pc' = "cis"
  /\ Iter' = 0
  /\ last' = [op |-> "create"]
  /\ UNCHANGED << run, fPhase, nSimWords, vSims, iPatsPi, hasReprs, iRepr, fProved,
                  fFailed, pNexts, fMark1, fDisproved, cexPairs, iObj, iRound, iCls, pCexSeq,
                  RetValue >>

\* line 792: the complement under which the two variables are compared
SweepCompl(vObj, vRepr, phObj, phRepr) ==
  Xor01(Xor01(Abc_LitIsCompl(vObj), Abc_LitIsCompl(vRepr)), Xor01(phObj, phRepr))

\* a variant without the wrap
NextPatNoWrap(iPat, nCols) == iPat + 1

\* line 796: the next pattern column, wrapping to 1
NextPat(iPat, nCols) == IF iPat = nCols - 1 THEN 1 ELSE iPat + 1

\* line 804: the literal a proved object gets
MergeValue(vRepr, fCompl) == Abc_LitNotCond(vRepr, fCompl)

\* a variant that marks the disproved object only
MarkObjOnly(a, marks, i, r, iter) ==
  IF iter > 5 THEN marks
  ELSE [k \in DOMAIN marks |-> IF k = i THEN TRUE ELSE marks[k]]

\* lines 897-901: a disproved object and its AND representative are marked
MarkDisproved(a, marks, i, r, iter) ==
  IF iter > 5 THEN marks
  ELSE [k \in DOMAIN marks |->
          IF k = i \/ (k = r /\ ObjIsAnd(a, r)) THEN TRUE ELSE marks[k]]

\* lines 794-800 and 896-901: the query returned SAT with model res.model
SweepSat(i, r, b, res, iPat) ==
  [b EXCEPT !.iPatsPi = iPat,
            !.vSims = SetInputBits(vSims, iPat, res.model),
            !.Value = [b.Value EXCEPT ![i] = Unassigned],
            !.fDisproved = TRUE,
            !.fMark1 = MarkDisproved(pAig, b.fMark1, i, r, Iter),
            !.what = "sat", !.repr = r, !.cone = res.cone, !.model = res.model,
            !.vCopies = res.copies, !.vars = res.vars, !.cnf = res.cnf,
            !.query = res.query, !.nSolves = res.nSolves,
            !.conflicts = res.conflicts]

\* lines 802-806: the query returned UNSAT
SweepUnsat(i, r, b, res, fCompl) ==
  [b EXCEPT !.Value = [b.Value EXCEPT ![i] = MergeValue(b.Value[r], fCompl)],
            !.fProved = [fProved EXCEPT ![i] = TRUE],
            !.what = "unsat", !.repr = r, !.cone = res.cone,
            !.vCopies = res.copies, !.vars = res.vars, !.cnf = res.cnf,
            !.query = res.query, !.nSolves = res.nSolves,
            !.conflicts = res.conflicts]

\* lines 808-812: the query returned UNDEC
SweepUndec(i, r, b, res) ==
  [b EXCEPT !.fFailed = [fFailed EXCEPT ![i] = TRUE],
            !.what = "undec", !.repr = r, !.cone = res.cone,
            !.vCopies = res.copies, !.vars = res.vars, !.cnf = res.cnf,
            !.query = res.query, !.nSolves = res.nSolves,
            !.conflicts = res.conflicts]

\* lines 793-813: the branches on the answer of the solver
SweepResults(i, r, b, fCompl) ==
  UNION { IF res.status = "SAT"
          THEN { SweepSat(i, r, b, res, NextPat(iPatsPi, NumCols(nSimWords))) }
          ELSE IF res.status = "UNSAT" THEN { SweepUnsat(i, r, b, res, fCompl) }
          \* line 811, assert( 0 ): the build with assertions stops here
          ELSE { SweepUndec(i, r, b, res),
                 [SweepUndec(i, r, b, res) EXCEPT !.abort = TRUE] } :
            res \in Cec2_ManSolveTwo(pAig, b.pNew, b.vCopies, Abc_Lit2Var(b.Value[r]),
                                     Abc_Lit2Var(b.Value[i]), fCompl, run.undec) }

\* Cec2_ManSweepNode (lines 787-816) with lines 891-901 of its caller: the
\* possible results of the visit of object i, which was just hashed (state b)
SweepNodeOutcomes(i, r, b) ==
  UNION { SweepResults(i, r, b, fCompl) :
            fCompl \in { SweepCompl(b.Value[i], b.Value[r], fPhase[i], fPhase[r]) } }

\* a variant that never compares an object with its representative
VisitHashedNoCheck(i, r, b1) == { [b1 EXCEPT !.what = "norepr"] }

\* lines 882-895: object i was hashed to h.lit; b1 is the state after it
VisitHashed(i, r, b1) ==
  IF r = GIA_VOID THEN { [b1 EXCEPT !.what = "norepr"] }
  ELSE IF fMark1[r] THEN { [b1 EXCEPT !.what = "reprmarked", !.repr = r] }
  \* Value of the representative is ~0: its variable is no object of pNew
  ELSE IF Value[r] = Unassigned
    THEN { [b1 EXCEPT !.what = "badrepr", !.repr = r, !.abort = TRUE] }
  ELSE IF Abc_Lit2Var(b1.Value[i]) = Abc_Lit2Var(Value[r])
    THEN IF Xor01(Abc_LitIsCompl(b1.Value[i]), Abc_LitIsCompl(Value[r]))
              = Xor01(fPhase[i], fPhase[r])
         THEN { [b1 EXCEPT !.fProved = [fProved EXCEPT ![i] = TRUE],
                           !.what = "struct", !.repr = r] }
         \* line 887: the assertion stops the build that has assertions
         ELSE { [b1 EXCEPT !.fProved = [fProved EXCEPT ![i] = TRUE],
                           !.what = "struct", !.repr = r],
                [b1 EXCEPT !.what = "assert887", !.repr = r, !.abort = TRUE] }
  ELSE SweepNodeOutcomes(i, r, b1)

\* lines 871-880: the object is hashed into pNew
VisitHash(i, b0) ==
  UNION { (IF fProved[i] \/ fFailed[i]
           \* line 871: assert( !proved && !failed )
           THEN { [b0 EXCEPT !.what = "assert871", !.abort = TRUE] }
           ELSE {})
          \cup UNION { VisitHashed(i, iRepr[i], b1) :
                         b1 \in { [b0 EXCEPT !.Value = [Value EXCEPT ![i] = h.lit],
                                             !.pNew = h.new,
                                             \* lines 875-880: a new object gets -1
                                             !.vCopies =
                                               IF Len(vCopies) = Abc_Lit2Var(h.lit)
                                               THEN Append(vCopies, 0 - 1)
                                               ELSE vCopies] } } :
            h \in { Gia_ManHashAnd(pNew,
                                   Abc_LitNotCond(Value[FaninId0(pAig, i)], FaninC0(pAig, i)),
                                   Abc_LitNotCond(Value[FaninId1(pAig, i)], FaninC1(pAig, i))) } }

\* a variant that takes no object as swept
NeverSwept(v) == FALSE

\* line 867, if ( ~pObj->Value ): the object has a literal of pNew
AlreadySwept(v) == v # Unassigned

\* a variant in which a mark, once set, stays
StickyMark(own, m0, m1) == own \/ m0 \/ m1

\* line 864: fMark1 of the visited object becomes that of its fanins
VisitMark(own, m0, m1) == m0 \/ m1

\* a variant that hashes an object whatever its fanins hold
FaninAlwaysSwept(v0, v1) == FALSE

\* line 869, if ( !~Fanin0->Value || !~Fanin1->Value ): a fanin has no literal
FaninUnswept(v0, v1) == v0 = Unassigned \/ v1 = Unassigned

\* lines 864-902: the possible results of the visit of AND object i
VisitOutcomes(i) ==
  UNION { IF b0.fMark1[i] THEN { b0 }
          ELSE IF AlreadySwept(Value[i]) THEN { [b0 EXCEPT !.what = "swept"] }
          ELSE IF FaninUnswept(Value[FaninId0(pAig, i)], Value[FaninId1(pAig, i)])
            THEN { [b0 EXCEPT !.what = "fanin"] }
          ELSE VisitHash(i, b0) :
            b0 \in { [Value |-> Value,
                      fMark1 |-> [fMark1 EXCEPT ![i] = VisitMark(fMark1[i],
                                                                 fMark1[FaninId0(pAig, i)],
                                                                 fMark1[FaninId1(pAig, i)])],
                      pNew |-> pNew, vCopies |-> vCopies, vars |-> {}, cnf |-> {}, conflicts |-> 0,
                      fProved |-> fProved, fFailed |-> fFailed,
                      vSims |-> vSims, iPatsPi |-> iPatsPi, fDisproved |-> fDisproved,
                      abort |-> FALSE, what |-> "marked", repr |-> GIA_VOID,
                      cone |-> {}, model |-> << >>, query |-> << >>, nSolves |-> 0] } }

\* one iteration of the loop of line 862
SweepVisit ==
  /\ pc = "visit"
  /\ iObj < FirstCo(pAig)
  /\ \E o \in VisitOutcomes(iObj) :
       /\ Value' = o.Value
       /\ fMark1' = o.fMark1
       /\ pNew' = o.pNew
       /\ vCopies' = o.vCopies
       /\ fProved' = o.fProved
       /\ fFailed' = o.fFailed
       /\ vSims' = o.vSims
       /\ iPatsPi' = o.iPatsPi
       /\ fDisproved' = o.fDisproved
       /\ cexPairs' = (IF o.what = "sat" THEN cexPairs \cup {<< o.repr, iObj >>}
                       ELSE cexPairs)
       /\ pc' = (IF o.abort THEN "abort" ELSE "visit")
       /\ last' = [op |-> "visit", obj |-> iObj, what |-> o.what, repr |-> o.repr,
                   cone |-> o.cone, model |-> o.model, vars |-> o.vars, cnf |-> o.cnf,
                   query |-> o.query, nSolves |-> o.nSolves,
                   conflicts |-> o.conflicts]
  /\ iObj' = iObj + 1
  /\ UNCHANGED << run, stage, fPhase, nSimWords, hasReprs, iRepr, pNexts, Iter,
                  iRound, iCls, pCexSeq, RetValue >>

\* a variant that never simulates after a pass
PassEndNoSim ==
  /\ pc = "visit"
  /\ iObj = FirstCo(pAig)
  /\ pc' = "loop"
  /\ last' = [op |-> "passend"]
  /\ UNCHANGED << run, stage, fPhase, nSimWords, vSims, iPatsPi, hasReprs, iRepr,
                  fProved, fFailed, pNexts, Value, fMark1, pNew, vCopies, Iter, fDisproved, cexPairs,
                  iObj, iRound, iCls, pCexSeq, RetValue >>

\* lines 903-909: after the last AND, a pass with a disproof simulates again
PassEnd ==
  /\ pc = "visit"
  /\ iObj = FirstCo(pAig)
  /\ pc' = (IF fDisproved THEN "sim" ELSE "loop")
  /\ last' = [op |-> "passend"]
  /\ UNCHANGED << run, stage, fPhase, nSimWords, vSims, iPatsPi, hasReprs, iRepr,
                  fProved, fFailed, pNexts, Value, fMark1, pNew, vCopies, Iter, fDisproved, cexPairs,
                  iObj, iRound, iCls, pCexSeq, RetValue >>

\* lines 913-915: Cec2_ManDestroy frees the words and pNew and cleans the marks
Finish ==
  /\ pc = "destroy"
  /\ vSims' = << >>
  /\ fMark1' = [i \in Objs(pAig) |-> FALSE]
  /\ pNew' = << >>
  /\ vCopies' = << >>
  /\ Done(IF pCexSeq # << >> THEN 0 ELSE 1)
  /\ last' = [op |-> "return"]
  /\ UNCHANGED << run, stage, fPhase, nSimWords, iPatsPi, hasReprs, iRepr, fProved,
                  fFailed, pNexts, Value, Iter, fDisproved, cexPairs, iObj, iRound, iCls,
                  pCexSeq >>

Next ==
  \/ Start
  \/ SimAlloc
  \/ SimulateCis
  \/ Simulate
  \/ RefineStep
  \/ SimulateCos
  \/ CreateClasses
  \/ Loop
  \/ ManCreate
  \/ SweepVisit
  \/ PassEnd
  \/ Finish

Spec == Init /\ [][Next]_vars

\* the AIGs that are swept a second time
SweptTwice == { AigTwoSame, AigMergeCone, AigDupMarked }

\* Cec2_ManPerformSweeping is called again on the AIG a call that returned 1
\* has left: the AIG keeps its classes, flags, phases and Value fields, the
\* locals of the call start anew
Restart ==
  /\ pc = "done" /\ RetValue = 1
  /\ run.prev = << >> /\ pAig \in SweptTwice
  /\ run' = [run EXCEPT !.prev = [iRepr |-> iRepr, fProved |-> fProved,
                                   fFailed |-> fFailed]]
  /\ pc' = "start"
  /\ stage' = "first"
  /\ fDisproved' = TRUE
  /\ cexPairs' = {}
  /\ Iter' = 0 /\ iObj' = 0 /\ iRound' = 0 /\ iCls' = 0
  /\ RetValue' = 0 - 1
  /\ last' = [op |-> "again"]
  /\ UNCHANGED << fPhase, nSimWords, vSims, iPatsPi, hasReprs, iRepr, fProved, fFailed,
                  pNexts, Value, fMark1, pNew, vCopies, pCexSeq >>

NextTwice == Next \/ Restart

SpecTwice == Init /\ [][NextTwice]_vars

\* the sweep loop under fair scheduling: the code always takes its next step
FairSpec == Spec /\ WF_vars(Next)

(***************************************************************************)
(* Properties                                                              *)
(***************************************************************************)
PhaseDiff(i, r) == Xor01(fPhase[i], fPhase[r])
OnChain(r, i) == \E k \in DOMAIN ClassMembers(pNexts, r) : ClassMembers(pNexts, r)[k] = i
CexAssignment == [c \in CiIds(pAig) |-> pCexSeq.pData[c - 1]]
Drivable(co) == \E asg \in Assignments(pAig) : EvalAig(pAig, asg)[co] = 1

\* C1: a proved object and its representative compute the same function of
\* the CIs up to the difference of their phases
ProofsSound ==
  hasReprs =>
    \A i \in Objs(pAig) :
      (fProved[i] /\ iRepr[i] # GIA_VOID) =>
        \A asg \in Assignments(pAig) :
          EvalAig(pAig, asg)[i]
            = Xor01(EvalAig(pAig, asg)[iRepr[i]], PhaseDiff(i, iRepr[i]))

\* C2: in miter mode a returned counter-example drives its CO to 1; one taken
\* from the simulation words is read at the lowest column where the first CO
\* that differs from the constant has bit 1
CexValid ==
  /\ (pPars.fIsMiter /\ pc = "done" /\ RetValue = 0) =>
       /\ pCexSeq # << >>
       /\ EvalAig(pAig, CexAssignment)[FirstCo(pAig) + pCexSeq.iPo] = 1
  /\ last.op = "cex" =>
       LET co == FirstCo(pAig) + pCexSeq.iPo
           col == Min({ c \in Cols(nSimWords) : vSims[co][c] = 1 })
       IN /\ \A o \in CoIds(pAig) : o < co => \A c \in Cols(nSimWords) : vSims[o][c] = 0
          /\ \A k \in CiIds(pAig) : pCexSeq.pData[k - 1] = vSims[k][col]

\* C2 witness: a counter-example with a CI at 1 found after SAT-derived
\* patterns were simulated
CexAfterSat ==
  /\ pPars.fIsMiter /\ pc = "done" /\ RetValue = 0 /\ stage = "sweep"
  /\ pCexSeq # << >>
  /\ \E c \in CiIds(pAig) : pCexSeq.pData[c - 1] = 1

\* C3: in miter mode, without UNDEC, a call that returns 1 leaves no CO that
\* some CI assignment drives to 1
MiterComplete ==
  (pPars.fIsMiter /\ ~run.undec /\ pc = "done" /\ RetValue = 1) =>
    \A co \in CoIds(pAig) : ~Drivable(co)

\* C4: without UNDEC the sweep loop eventually exits
SweepTerminates == (~run.undec) => <>(pc \in {"done", "abort"})

\* C5: the sweep loop exits either by a counter-example or right after a full
\* pass without a disproof; success (1, no counter-example) is returned only
\* in the second case; a pass has a disproof exactly when one of its queries
\* returned SAT, and after such a pass the loop goes on
FixpointExit ==
  /\ [](/\ pc = "destroy" =>
             \/ pCexSeq # << >>
             \/ (~fDisproved /\ iObj = FirstCo(pAig))
        /\ (pc = "done" /\ stage = "sweep") =>
             /\ RetValue = 1 <=> pCexSeq = << >>
             /\ RetValue = 1 => (~fDisproved /\ iObj = FirstCo(pAig)))
  /\ [][/\ (last'.op = "visit" /\ last'.what = "sat") => fDisproved'
        /\ (~fDisproved /\ fDisproved') => (last'.op = "visit" /\ last'.what = "sat")
        /\ (fDisproved /\ ~fDisproved') => last'.op = "cis"
        /\ (pc = "loop" /\ stage = "sweep") => (pc' = "destroy" <=> ~fDisproved)]_vars

\* C5 witness: success after a first pass with a disproof and a later one without
SuccessAfterDisproof ==
  pc = "done" /\ stage = "sweep" /\ RetValue = 1 /\ Iter >= 2 /\ ~fDisproved

\* C6: in miter mode a CO of phase 1 ends the call at once: 0 is returned with
\* the lowest such CO and all CI bits 0, with no simulation words and no classes
AllZeroShortcut ==
  LET bad == { co \in CoIds(pAig) : EvalAig(pAig, AllZero(pAig))[co] = 1 }
  IN /\ (pPars.fIsMiter /\ bad # {} /\ pc # "start") =>
          /\ last.op = "cex0"
          /\ pc = "done" /\ RetValue = 0
          /\ pCexSeq # << >>
          /\ \A o \in bad : FirstCo(pAig) + pCexSeq.iPo <= o
          /\ FirstCo(pAig) + pCexSeq.iPo \in bad
          /\ \A k \in CiIds(pAig) : pCexSeq.pData[k - 1] = 0
          /\ nSimWords = 0 /\ vSims = << >>
          /\ ~hasReprs /\ iRepr = << >> /\ pNexts = << >>
     /\ last.op = "cex0" => (pPars.fIsMiter /\ bad # {})

\* C6 witness: the shortcut was taken and the reported CO is not the first CO
ShortcutTaken == last.op = "cex0" /\ pCexSeq.iPo > 0

\* C7: a proved object keeps a representative r < i, is on r's list, and its
\* literal in pNew is r's literal complemented exactly by the phase difference
ProvedNodeInvariant ==
  hasReprs =>
    \A i \in Objs(pAig) :
      fProved[i] =>
        /\ iRepr[i] # GIA_VOID
        /\ iRepr[i] < i
        /\ OnChain(iRepr[i], i)
        /\ Value[i] = Abc_LitNotCond(Value[iRepr[i]], PhaseDiff(i, iRepr[i]))

HeadOf(i) == IF iRepr[i] = GIA_VOID THEN i ELSE iRepr[i]
ClassObjs == { i \in Objs(pAig) : ~ObjIsCo(pAig, i) }
PairsEqual(S) ==
  \A i \in S : \A j \in S : (i < j /\ HeadOf(i) = HeadOf(j)) => Cec2_ObjSimEqual(vSims, i, j)
EndOfRound == pc = "loop" /\ stage \in {"first", "round"}
EndOfIteration == pc = "loop" /\ stage = "sweep"
AtReturn == pc = "destroy" \/ (pc = "done" /\ vSims # << >>)

\* C8 as stated: with classes, at the end of every simulation round, at the end
\* of every sweep iteration and at the return, every two objects of a class
\* (CIs included) are equal over the stored simulation words
ClassesAlwaysConsistent ==
  (hasReprs /\ (EndOfRound \/ EndOfIteration \/ AtReturn)) => PairsEqual(ClassObjs)

\* C8 as the code has it: all pairs are equal at the end of a simulation round,
\* at the end of an iteration that disproved something and when a
\* counter-example was just found; at the end of an iteration without disproof
\* and at the return only the pairs without a CI are
ClassesConsistentAfterSimulation ==
  /\ (hasReprs /\ (EndOfRound \/ (EndOfIteration /\ fDisproved) \/ last.op = "cex"))
       => PairsEqual(ClassObjs)
  /\ (hasReprs /\ (EndOfIteration \/ AtReturn))
       => PairsEqual({ i \in ClassObjs : ~ObjIsCi(pAig, i) })

\* C8 witness: a sweep iteration with a disproof ends with a class that holds a
\* CI and an AND
RefinedClassWithCi ==
  /\ EndOfIteration /\ fDisproved
  /\ \E i \in CiIds(pAig) : \E j \in AndIds(pAig) : HeadOf(i) = HeadOf(j)

\* C9: a representative is lower than its object and is itself a head; after
\* class creation the objects with the same signature are in one class, so the
\* lowest of them is the head
HeadIsLowest ==
  hasReprs =>
    /\ \A i \in Objs(pAig) :
         iRepr[i] # GIA_VOID => (iRepr[i] < i /\ iRepr[iRepr[i]] = GIA_VOID)
    /\ (pc = "loop" /\ stage = "first") =>
         \A i \in ClassObjs : \A j \in ClassObjs :
           (i < j /\ Cec2_ObjSimEqual(vSims, i, j)) => iRepr[j] = HeadOf(i)

\* C9 witness: class creation is over and a class has three objects, while an
\* object with another signature is a head of its own
ClassOfThree ==
  /\ pc = "loop" /\ stage = "first"
  /\ \E h \in ClassObjs : Cardinality({ i \in ClassObjs : HeadOf(i) = h }) >= 3
  /\ \E h \in ClassObjs : h > 0 /\ Gia_ObjIsHead(iRepr, pNexts, h)

\* C10: the lists are disjoint, acyclic and end with -1; the list of a head
\* holds exactly the objects whose repr it is, each once; an object without
\* repr and without next is on no list
ListsWellFormed ==
  hasReprs =>
    /\ \A i \in Objs(pAig) : pNexts[i] = NoNext \/ (pNexts[i] \in Objs(pAig) /\ pNexts[i] > 0)
    /\ \A i \in Objs(pAig) : iRepr[i] # GIA_VOID => iRepr[iRepr[i]] = GIA_VOID
    /\ \A r \in Objs(pAig) :
         iRepr[r] = GIA_VOID =>
           \E ch \in { ClassMembers(pNexts, r) } :
             /\ \A k \in DOMAIN ch : \A l \in DOMAIN ch : k # l => ch[k] # ch[l]
             /\ { ch[k] : k \in DOMAIN ch } = { i \in Objs(pAig) : iRepr[i] = r }
    /\ \A i \in Objs(pAig) :
         (iRepr[i] = GIA_VOID /\ pNexts[i] = NoNext) =>
           \A r \in Objs(pAig) : ~OnChain(r, i)

\* C10 witness: a refinement has just split a class, the old head keeps a
\* member and the new head has one
SplitInTwoLists ==
  /\ last.op = "refine" /\ last.split
  /\ pNexts[last.head] > 0
  /\ \E h \in Objs(pAig) : h > last.head /\ Gia_ObjIsHead(iRepr, pNexts, h)
                            /\ \E i \in Objs(pAig) : iRepr[i] = h

HeadIn(reprs, i) == IF reprs[i] = GIA_VOID THEN i ELSE reprs[i]
MembersIn(reprs, h) == { i \in DOMAIN reprs : reprs[i] = h }

\* C11: once the classes exist, every step leaves an object without
\* representative without one (a head never becomes a member), leaves the
\* member set of each such object a subset of what it was, and puts no two
\* objects in one class that were in different classes
MonotonicClasses ==
  [][(hasReprs /\ hasReprs') =>
       /\ \A h \in Objs(pAig) :
            iRepr[h] = GIA_VOID =>
              /\ iRepr'[h] = GIA_VOID
              /\ MembersIn(iRepr', h) \subseteq MembersIn(iRepr, h)
       /\ \A i \in Objs(pAig) : \A j \in Objs(pAig) :
            HeadIn(iRepr', i) = HeadIn(iRepr', j) => HeadIn(iRepr, i) = HeadIn(iRepr, j)]_vars

\* C11 witness: a refinement inside the sweep loop has just split a class
SplitInSweep == last.op = "refine" /\ last.split /\ stage = "sweep"

\* the words are allocated and Cec2_ManSimulateCis has filled them once
SimStorageReady == nSimWords >= 1 /\ ~(stage = "first" /\ pc = "cis")

\* C12: once the simulation storage is set up, iPatsPi is in 1..NumCols-1;
\* Cec2_ManSimulateCis sets it to 1, a SAT answer moves it on by one with the
\* wrap from the last column to 1 and writes the pattern there, nothing else
\* changes it, and column 0 of every CI stays zero
PatternColumnRange ==
  /\ [](SimStorageReady =>
          /\ iPatsPi \in 1..(NumCols(nSimWords) - 1)
          /\ last.op = "cis" => iPatsPi = 1
          /\ vSims # << >> => \A c \in CiIds(pAig) : vSims[c][0] = 0)
  /\ [][SimStorageReady =>
          /\ (last'.op = "visit" /\ last'.what = "sat") =>
                /\ iPatsPi' = (IF iPatsPi = NumCols(nSimWords) - 1 THEN 1
                               ELSE iPatsPi + 1)
                /\ \A c \in CiIds(pAig) : \A k \in Cols(nSimWords) :
                      k # iPatsPi' => vSims'[c][k] = vSims[c][k]
          /\ ~(last'.op = "visit" /\ last'.what = "sat") =>
                (iPatsPi' = iPatsPi \/ (last'.op = "cis" /\ iPatsPi' = 1))]_vars

\* C12 witness: a SAT answer has just wrapped the column from the last one to 1
PatternColumnWrapped ==
  /\ last.op = "visit" /\ last.what = "sat" /\ iPatsPi = 1
  /\ \E c \in last.cone : vSims[c][1] = 1

\* C13: whenever pNew exists and no call of Cec2_ManSolveTwo is running, every
\* object of pNew has CNF variable -1: each call, whatever its answer, cleans
\* the variable of every object it gave one (the constant, the roots, the
\* leaves of the super-gates and the grandchildren of the MUXes)
SatVarsCleaned ==
  /\ Len(vCopies) = Len(pNew)
  /\ \A k \in DOMAIN vCopies : vCopies[k] = 0 - 1

QueryReturned == last.op = "visit" /\ last.what \in {"sat", "unsat", "undec"}

\* C13 witness: a query has returned that gave variables to a MUX-type root and
\* to objects other than its two roots
MuxQueryCleaned ==
  /\ QueryReturned
  /\ \E v \in last.vars : NewObj(pNew, v).fMark0
  /\ Cardinality(last.vars) > 2

\* C14: after an UNDEC answer for object i, failed(i) is set, i is not merged
\* (its literal keeps its own variable and proved(i) is clear), the variables
\* are cleaned, the run has not stopped and the loop is at the next object
UndecRecoverable ==
  (last.op = "visit" /\ last.what = "undec") =>
    /\ fFailed[last.obj]
    /\ ~fProved[last.obj]
    /\ Abc_Lit2Var(Value[last.obj]) # Abc_Lit2Var(Value[last.repr])
    /\ \A k \in DOMAIN vCopies : vCopies[k] = 0 - 1
    /\ pc = "visit" /\ iObj = last.obj + 1

\* C15: with nConfLimit = 1 a query that meets more than one conflict ends as
\* UNDEC with failed(i) set and both objects unmerged, and no later query of
\* the run is for an object whose failed flag is set
UndecScenario ==
  /\ []((pPars.nConfLimit = 1 /\ QueryReturned /\ last.conflicts > 1) =>
          /\ last.what = "undec"
          /\ fFailed[last.obj] /\ ~fProved[last.obj]
          /\ Abc_Lit2Var(Value[last.obj]) # Abc_Lit2Var(Value[last.repr]))
  /\ [][(hasReprs /\ last'.op = "visit"
           /\ last'.what \in {"sat", "unsat", "undec"}) => ~fFailed[last'.obj]]_vars

\* C16: a run with nSimWords < 1 ends at once with the outcome ConfigInvalid,
\* with no simulation words, no classes and no flag of the AIG changed
ConfigValidated ==
  (pPars.nSimWords < 1 /\ pc # "start") =>
    /\ pc = "done" /\ last.op = "ConfigInvalid"
    /\ vSims = << >> /\ ~hasReprs
    /\ \A i \in Objs(pAig) : fPhase[i] = 0 /\ ~fMark1[i]
    /\ pCexSeq = << >>

\* C17: when the simulation and refinement that end a pass are over, every
\* pair (r, i) the pass disproved differs over the simulation words and i no
\* longer has r as representative
RoundTripSimulation ==
  (stage = "sweep" /\ last.op = "refined") =>
    \A pr \in cexPairs :
      /\ ~Cec2_ObjSimEqual(vSims, pr[1], pr[2])
      /\ iRepr[pr[2]] # pr[1]

\* C18: a second call on the AIG a successful first call has left, when it
\* returns 1 too, leaves the same proved flags, the same representatives of
\* the proved objects and the same failed flags
IdempotentSweep ==
  (run.prev # << >> /\ pc = "done" /\ RetValue = 1) =>
    /\ fProved = run.prev.fProved
    /\ fFailed = run.prev.fFailed
    /\ \A i \in Objs(pAig) : fProved[i] => iRepr[i] = run.prev.iRepr[i]

SameFaninRun == pAig = AigSameFanin /\ pc = "done" /\ RetValue = 1

\* C19 as stated: for one CI a and n1 = a & a, n2 = a & a, after the sweep n1
\* is the representative of n2, n2 is proved and there is no counter-example
TwoIdenticalNodes ==
  SameFaninRun =>
    /\ iRepr[FirstAnd(pAig) + 1] = FirstAnd(pAig)
    /\ fProved[FirstAnd(pAig) + 1]
    /\ pCexSeq = << >>

\* C19 as the code has it: the CI a heads the class of n1 and n2, both are
\* proved with representative a and there is no counter-example
TwoIdenticalNodesUnderCi ==
  SameFaninRun =>
    /\ iRepr[FirstAnd(pAig)] = 1 /\ iRepr[FirstAnd(pAig) + 1] = 1
    /\ fProved[FirstAnd(pAig)] /\ fProved[FirstAnd(pAig) + 1]
    /\ iRepr[1] = GIA_VOID /\ pCexSeq = << >>

\* C19 witness: the sweep of the two nodes is over after a pass that disproved
\* them against the constant
SameFaninSwept == SameFaninRun /\ Iter >= 2 /\ fProved[FirstAnd(pAig) + 1]

\* the AND objects whose fanins are a literal and its complement
ComplFaninAnds ==
  { n \in AndIds(pAig) : FaninLit0(pAig, n) = Abc_LitNot(FaninLit1(pAig, n)) }

\* C20: an AND of a literal and its complement has the constant as
\* representative as soon as the classes exist, is never the object of a SAT
\* query, and is proved when the sweep returns 1
ConstZeroDetected ==
  \A n \in ComplFaninAnds :
    /\ hasReprs => iRepr[n] = 0
    /\ (QueryReturned => last.obj # n)
    /\ (pc = "done" /\ RetValue = 1) => fProved[n]

\* C20 witness: a sweep with a disproof has ended and an AND of an AND object
\* and its complement is proved with the constant as representative
ConstZeroProved ==
  /\ pc = "done" /\ RetValue = 1 /\ Iter >= 2
  /\ \E n \in ComplFaninAnds :
       ObjIsAnd(pAig, FaninId0(pAig, n)) /\ fProved[n] /\ iRepr[n] = 0

\* C21 as stated: of the objects a query explored, a MUX-type object with
\* distinct then/else variables gets 6 clauses and an AND super-gate with k
\* leaves gets 2*k+1 clauses
ClauseCounts ==
  QueryReturned =>
    \A c \in last.cnf :
      /\ (c.mux /\ ~c.sameTE) => Len(c.clauses) = 6
      /\ ~c.mux => Len(c.clauses) = 2 * Len(c.leaves) + 1

\* C21 as the code has it: 6 clauses for a MUX-type object with distinct
\* then/else variables (4 when they are the same variable), and k+1 clauses
\* for a super-gate with k leaves: one of two literals per leaf and one of k+1
\* literals
ClauseCountsOnePerLeaf ==
  QueryReturned =>
    \A c \in last.cnf :
      /\ (c.mux /\ ~c.sameTE) => Len(c.clauses) = 6
      /\ (c.mux /\ c.sameTE) => Len(c.clauses) = 4
      /\ c.mux => \A k \in DOMAIN c.clauses : Len(c.clauses[k]) = 3
      /\ ~c.mux =>
           /\ Len(c.leaves) >= 2
           /\ Len(c.clauses) = Len(c.leaves) + 1
           /\ \A k \in 1..Len(c.leaves) : Len(c.clauses[k]) = 2
           /\ Len(c.clauses[Len(c.leaves) + 1]) = Len(c.leaves) + 1

\* C21 witness: one query explored a MUX-type object with distinct then/else
\* variables and a super-gate with three leaves
MuxAndSuperEncoded ==
  /\ QueryReturned
  /\ \E c \in last.cnf : c.mux /\ ~c.sameTE
  /\ \E c \in last.cnf : ~c.mux /\ Len(c.leaves) >= 3

\* the objects of the class of head h: h and the objects whose repr is h
ClassOf(reprs, h) == {h} \cup MembersIn(reprs, h)
EqualTo(h, S) == { i \in S : Cec2_ObjSimEqual(vSims, h, i) }

\* C22: a call Cec2_ManSimClassRefineOne(h) leaves in the class of h exactly
\* the previous members that are equal to h over the current words, moves the
\* others into one class headed by the lowest of them, changes the repr and
\* next of no object outside the previous class, and changes nothing when every
\* member is equal to h
RefineOneSplit ==
  [][(last'.op = "refine") =>
       \E h \in { last'.head } :
       \E prev \in { ClassOf(iRepr, h) } :
       \E rest \in { prev \ EqualTo(h, prev) } :
         /\ iRepr[h] = GIA_VOID /\ iRepr'[h] = GIA_VOID
         /\ ClassOf(iRepr', h) = EqualTo(h, prev)
         /\ rest = {} => (iRepr' = iRepr /\ pNexts' = pNexts)
         /\ rest # {} =>
              /\ iRepr'[Min(rest)] = GIA_VOID
              /\ ClassOf(iRepr', Min(rest)) = rest
              /\ \E ch \in { ClassMembers(pNexts', Min(rest)) } :
                   { ch[k] : k \in DOMAIN ch } = rest \ { Min(rest) }
         /\ \A i \in Objs(pAig) \ prev :
              iRepr'[i] = iRepr[i] /\ pNexts'[i] = pNexts[i]
         /\ vSims' = vSims]_vars

\* C22 witness: a call has split a class; the old head keeps a member that
\* came after the first differing one on the list, and the new head got a
\* member
SplitAroundMember ==
  /\ last.op = "refine" /\ last.split
  /\ \E h2 \in Objs(pAig) :
       /\ h2 > last.head /\ iRepr[h2] = GIA_VOID /\ MembersIn(iRepr, h2) # {}
       /\ \E i \in MembersIn(iRepr, last.head) : i > h2
       /\ \A j \in MembersIn(iRepr, h2) : ~Cec2_ObjSimEqual(vSims, last.head, j)

\* every member of the class of head h is equal to h over the current words
FullyRefined(h) == \A i \in MembersIn(iRepr, h) : Cec2_ObjSimEqual(vSims, h, i)

\* C23 as stated: when a call Cec2_ManSimClassRefineOne(h) that split a class
\* returns, all members of the class split off are equal to its new head
RefineOneRecursive ==
  (last.op = "refine" /\ last.split) =>
    \A h2 \in Objs(pAig) :
      (h2 > last.head /\ iRepr[h2] = GIA_VOID
         /\ ~Cec2_ObjSimEqual(vSims, last.head, h2)) => FullyRefined(h2)

\* C23 as the code has it: a call leaves the class of h fully refined and the
\* class split off as it is; the loop over the heads reaches the new head
\* later, so inside the loop every class whose head is below the loop's
\* position is fully refined, and after the loop every class is
RefinedByLoop ==
  /\ last.op = "refine" => FullyRefined(last.head)
  /\ pc \in {"refine", "crefine"} =>
       \A h \in Objs(pAig) : (h < iCls /\ iRepr[h] = GIA_VOID) => FullyRefined(h)
  /\ last.op = "refined" =>
       \A h \in Objs(pAig) : iRepr[h] = GIA_VOID => FullyRefined(h)

\* C23 witness: a call has just split off a class that holds a member differing
\* from its new head, which the loop has not reached yet
SplitOffUnrefined ==
  /\ last.op = "refine" /\ last.split /\ pc \in {"refine", "crefine"}
  /\ \E h2 \in Objs(pAig) :
       /\ h2 >= iCls /\ iRepr[h2] = GIA_VOID /\ ~FullyRefined(h2)
       /\ ~Cec2_ObjSimEqual(vSims, last.head, h2)

\* i comes before j on the list of head h
Before(nexts, h, i, j) ==
  \E ch \in { ClassMembers(nexts, h) } :
    \E k \in DOMAIN ch : \E l \in DOMAIN ch : k < l /\ ch[k] = i /\ ch[l] = j

\* C24: once the classes exist, the next of every object is -1 or a higher
\* object, so every list is in strictly increasing object order; and two
\* members that a step leaves in one class keep their order on the list
OrderWithinClass ==
  /\ [](hasReprs => \A i \in Objs(pAig) : pNexts[i] = NoNext \/ pNexts[i] > i)
  /\ [][(hasReprs /\ hasReprs') =>
          \A i \in Objs(pAig) : \A j \in Objs(pAig) :
            (/\ iRepr[i] # GIA_VOID /\ iRepr[i] = iRepr[j]
             /\ iRepr'[i] # GIA_VOID /\ iRepr'[i] = iRepr'[j]
             /\ Before(pNexts, iRepr[i], i, j))
              => Before(pNexts', iRepr'[i], i, j)]_vars

\* C24 witness: a refinement has split a class and has moved two members, with
\* a member that stays between them, to the list of the new head
MovedInOrder ==
  /\ last.op = "refine" /\ last.split
  /\ \E i \in Objs(pAig) : \E j \in Objs(pAig) : \E m \in Objs(pAig) :
       /\ i < m /\ m < j
       /\ iRepr[i] # GIA_VOID /\ iRepr[i] > last.head /\ iRepr[j] = iRepr[i]
       /\ iRepr[m] = last.head
       /\ Before(pNexts, iRepr[i], i, j)

\* the hash key Cec2_ManCreateClasses computes for object i
KeyOf(i) == Cec2_ManSimHashKey(vSims[i], nSimWords, Abc_PrimeCudd(ObjNum(pAig)))
ClassesCreated == pc = "loop" /\ stage = "first"

\* C25: when Cec2_ManCreateClasses has returned, two objects that are no COs
\* are in one class exactly when they are equal over the simulation words;
\* objects that are equal have the same hash key; a CO is never a member or a
\* head of a class
ClassifiedBySimulation ==
  /\ ClassesCreated =>
       \A i \in ClassObjs : \A j \in ClassObjs :
         i < j => (HeadOf(i) = HeadOf(j) <=> Cec2_ObjSimEqual(vSims, i, j))
  /\ (nSimWords >= 1 /\ vSims # << >>) =>
       \E sz \in { Abc_PrimeCudd(ObjNum(pAig)) } :
         \A i \in Objs(pAig) : \A j \in Objs(pAig) :
           (i < j /\ Cec2_ObjSimEqual(vSims, i, j)) =>
             Cec2_ManSimHashKey(vSims[i], nSimWords, sz)
               = Cec2_ManSimHashKey(vSims[j], nSimWords, sz)
  /\ hasReprs =>
       \A co \in CoIds(pAig) :
         /\ iRepr[co] = GIA_VOID /\ pNexts[co] = NoNext
         /\ \A i \in Objs(pAig) : iRepr[i] # co /\ pNexts[i] # co

\* C25 witness: Cec2_ManCreateClasses has returned; two objects with the same
\* key that differ are in different classes, and two objects that are
\* complements of each other are in one class
CollisionResolved ==
  /\ ClassesCreated
  /\ \E i \in ClassObjs : \E j \in ClassObjs :
       i < j /\ vSims[i][0] # vSims[j][0] /\ HeadOf(i) = HeadOf(j)
  /\ \E i \in ClassObjs : \E j \in ClassObjs :
       i < j /\ HeadOf(i) # HeadOf(j) /\ ~Cec2_ObjSimEqual(vSims, i, j)
             /\ KeyOf(i) = KeyOf(j)

\* the words exist and Cec2_ManSimulate has run at least once
SimulatedOnce ==
  nSimWords >= 1 /\ vSims # << >> /\ ~(stage = "first" /\ pc \in {"cis", "sim"})

\* C26 as stated: once a simulation round has run, bit 0 of word 0 of every
\* object (constant, CI, AND and CO, miter or not) is its phase
PhaseColumn ==
  SimulatedOnce => \A i \in Objs(pAig) : vSims[i][0] = fPhase[i]

\* C26 as the code has it: bit 0 of word 0 is the phase for the constant, the
\* CIs (always 0) and the ANDs; the words of a CO are written by
\* Cec2_ManSimulateCos only, which runs for a miter, where every CO has phase
\* 0; without fIsMiter the words of a CO stay zero whatever its phase
PhaseColumnButCo ==
  /\ SimulatedOnce => \A i \in ClassObjs : vSims[i][0] = fPhase[i]
  /\ (nSimWords >= 1 /\ vSims # << >>) =>
       /\ \A c \in CiIds(pAig) : vSims[c][0] = 0 /\ fPhase[c] = 0
       /\ \A co \in CoIds(pAig) :
            IF pPars.fIsMiter THEN vSims[co][0] = 0 /\ fPhase[co] = 0
            ELSE \A k \in Cols(nSimWords) : vSims[co][k] = 0

\* C26 witness: the simulation that follows a pass with SAT patterns has run,
\* an AND of phase 1 has a zero bit and a CI has a one bit
PhaseColumnAfterPatterns ==
  /\ last.op = "sim" /\ stage = "sweep"
  /\ \E i \in AndIds(pAig) : fPhase[i] = 1 /\ \E k \in Cols(nSimWords) : vSims[i][k] = 0
  /\ \E c \in CiIds(pAig) : \E k \in Cols(nSimWords) : vSims[c][k] = 1

\* C27: a SAT answer changes, of the simulation words, only the bits at the
\* new column iPatsPi of the CIs in the cone of the two queried objects, and
\* sets each to the value of the CI in the model; no repr and no next changes
PatternInjectionFrame ==
  [][(last'.op = "visit" /\ last'.what = "sat") =>
       /\ iRepr' = iRepr /\ pNexts' = pNexts
       /\ nSimWords' = nSimWords
       /\ \A i \in Objs(pAig) : \A k \in Cols(nSimWords) :
            vSims'[i][k] # vSims[i][k] =>
              (ObjIsCi(pAig, i) /\ i \in last'.cone /\ k = iPatsPi')
       /\ DOMAIN last'.model = last'.cone
       /\ last'.cone \subseteq CiIds(pAig)
       /\ \A c \in last'.cone : vSims'[c][iPatsPi'] = last'.model[c]]_vars

\* C27 witness: a SAT answer has written a pattern with a 1 for a CI of the
\* cone, and a CI outside the cone holds a 1 at the same column
PatternBesideStaleBit ==
  /\ last.op = "visit" /\ last.what = "sat"
  /\ \E c \in last.cone : vSims[c][iPatsPi] = 1
  /\ \E c \in CiIds(pAig) \ last.cone : vSims[c][iPatsPi] = 1

\* Cec2_ManSimulate has run and no CI bit was written since
AfterSimulate ==
  nSimWords >= 1 /\ last.op \in {"sim", "refine", "refined", "cos", "cex", "classes"}

\* the values of all objects of AIG a for every CI assignment
TruthTable(a) == { EvalAig(a, asg) : asg \in Assignments(a) }

\* the triples (AIG of a run, i, j), i < j no COs, of two objects that compute
\* the same function of the CIs or complemented functions
EquivPairs ==
  UNION { { << a, p[1], p[2] >> :
              p \in { q \in (0..(FirstCo(a) - 1)) \X (0..(FirstCo(a) - 1)) :
                        /\ q[1] < q[2]
                        /\ \E tt \in { TruthTable(a) } :
                             \/ \A row \in tt : row[q[1]] = row[q[2]]
                             \/ \A row \in tt : row[q[1]] # row[q[2]] } } :
            a \in { r.aig : r \in Runs } }

\* C28: when Cec2_ManSimulate has run, every bit of an AND object is the AND
\* of the bits of its fanins, each complemented by its flag, and two objects
\* (constant, CIs, ANDs) that compute the same function of the CIs, or
\* complemented functions, are equal for Cec2_ObjSimEqual
EqualOverApproximates ==
  AfterSimulate =>
    /\ \A i \in AndIds(pAig) : \A k \in Cols(nSimWords) :
         vSims[i][k] = (IF Xor01(vSims[FaninId0(pAig, i)][k], FaninC0(pAig, i)) = 1
                           /\ Xor01(vSims[FaninId1(pAig, i)][k], FaninC1(pAig, i)) = 1
                        THEN 1 ELSE 0)
    /\ \A i \in ClassObjs : \A j \in ClassObjs :
         << pAig, i, j >> \in EquivPairs => Cec2_ObjSimEqual(vSims, i, j)

\* C28 witness: the simulation after a pass with SAT patterns has run on an AIG
\* with two AND objects that compute complemented functions, neither of them
\* constant, and a CI holds a 1
ComplementPairSimulated ==
  /\ last.op = "sim" /\ stage = "sweep"
  /\ \E c \in CiIds(pAig) : \E k \in Cols(nSimWords) : vSims[c][k] = 1
  /\ \E i \in AndIds(pAig) : \E j \in AndIds(pAig) :
       /\ i < j /\ fPhase[i] # fPhase[j]
       /\ \E k \in Cols(nSimWords) : vSims[i][k] # vSims[i][0]
       /\ << pAig, i, j >> \in EquivPairs

\* C29: an object whose literal, right after hashing, has the variable of its
\* representative's literal is marked proved without a SAT query, and the
\* complement difference of the two literals is the phase difference: the
\* assertion of line 887 never fails
StructuralShortcut ==
  (last.op = "visit") =>
    /\ last.what # "assert887"
    /\ last.what = "struct" =>
         /\ fProved[last.obj]
         /\ last.vars = {} /\ last.cnf = {}
         /\ Abc_Lit2Var(Value[last.obj]) = Abc_Lit2Var(Value[last.repr])
         /\ Xor01(Abc_LitIsCompl(Value[last.obj]), Abc_LitIsCompl(Value[last.repr]))
              = PhaseDiff(last.obj, last.repr)

(***************************************************************************)
(* C30: the two queries of Cec2_ManSolveTwo                                *)
(***************************************************************************)
\* the last step was a visit that called Cec2_ManSolveTwo
Queried == last.op = "visit" /\ last.what \in {"sat", "unsat", "undec"}

\* the values of <<iObj0, iObj1>> of the last query under the model it returned
\* (the cone holds every CI the two objects depend on)
ModelValues ==
  Only({ << p[last.query[1] + 1], p[last.query[2] + 1] >> :
           p \in { NewEvalUpTo(pNew,
                               [c \in CiIds(pAig) |->
                                  IF c \in DOMAIN last.model THEN last.model[c] ELSE 0],
                               last.query[2]) } })

\* the assumptions vv on <<iVar0, iVar1>> hold under the returned model; the
\* variable of the constant (line 756) occurs in no clause, so a model may
\* give it any value
ModelAgrees(vv) ==
  /\ last.query[1] = 0 \/ ModelValues[1] = vv[1]
  /\ ModelValues[2] = vv[2]

\* the clauses of the last query have a model under the assumptions vv
SatUnder(vv) ==
  \E asg \in Assignments(pAig) :
    \E p \in { NewEvalUpTo(pNew, asg, last.query[2]) } :
      /\ last.query[1] = 0 \/ p[last.query[1] + 1] = vv[1]
      /\ p[last.query[2] + 1] = vv[2]

\* the protocol with the assumptions first, then second
QueryProtocol(first, second) ==
  Queried =>
    /\ last.nSolves \in {1, 2}
    /\ last.query[1] < last.query[2]
    \* a second query only after an UNSAT first one, and never with the constant
    /\ last.nSolves = 2 => last.query[1] > 0 /\ ~SatUnder(first)
    \* an UNSAT first query is followed by the second unless the constant is in it
    /\ (last.nSolves = 1 /\ last.query[1] > 0 /\ last.what # "undec") => last.what = "sat"
    /\ last.what = "sat" =>
         ModelAgrees(IF last.nSolves = 1 THEN first ELSE second)
    \* UNSAT is reported only if every issued query was UNSAT
    /\ last.what = "unsat" =>
         /\ ~SatUnder(first)
         /\ last.nSolves = (IF last.query[1] > 0 THEN 2 ELSE 1)
         /\ last.query[1] > 0 => ~SatUnder(second)

\* C30, as stated: Cec2_ManSolveTwo first solves under (var0 = 1, var1 = phase)
\* and then, only if that is UNSAT and object 0 is not the constant, under
\* (var0 = 0, var1 = NOT phase); it reports UNSAT only if every query it issued
\* was UNSAT, and with the constant on one side the second query is skipped
TwoPolarityAsStated ==
  QueryProtocol(<< 1, last.query[3] >>, << 0, 1 - last.query[3] >>)

\* C30, as the code has it: the first query is under (var0 = 0, var1 = NOT
\* phase), the second, issued only if the first is UNSAT and object 0 is not the
\* constant, under (var0 = 1, var1 = phase); UNSAT is reported only if every
\* issued query was UNSAT, and with the constant on one side there is one query
TwoPolarityQueries ==
  QueryProtocol(<< 0, 1 - last.query[3] >>, << 1, last.query[3] >>)

\* the first query was UNSAT and the second one found a counterexample, so no
\* proof is reported
SatBySecondQuery == Queried /\ last.what = "sat" /\ last.nSolves = 2


(***************************************************************************)
(* C31, C32: the clauses of a node and the function they define            *)
(***************************************************************************)
\* the value of literal l of the solver under the variable assignment sa
SatLitValue(sa, l) == Xor01(sa[Abc_Lit2Var(l)], Abc_LitIsCompl(l))
ClausesHold(sa, cs) ==
  \A k \in DOMAIN cs : \E j \in DOMAIN cs[k] : SatLitValue(sa, cs[k][j]) = 1
ClauseVars(cs) == UNION { { Abc_Lit2Var(cs[k][j]) : j \in DOMAIN cs[k] } : k \in DOMAIN cs }
AsSets(cs) == { { cs[k][j] : j \in DOMAIN cs[k] } : k \in DOMAIN cs }

\* the value of literal l of pNew in the sequence p of object values
NewLitValue(p, l) == Xor01(p[Abc_Lit2Var(l) + 1], Abc_LitIsCompl(l))

\* the six clauses of f = ITE(i, t, e) over the variable f and the literals i, t, e
IteClauses(f, i, t, e) ==
  { { Abc_LitNot(i), Abc_LitNot(t), Abc_Var2Lit(f, 0) },
    { Abc_LitNot(i), t, Abc_Var2Lit(f, 1) },
    { i, Abc_LitNot(e), Abc_Var2Lit(f, 0) },
    { i, e, Abc_Var2Lit(f, 1) },
    { t, e, Abc_Var2Lit(f, 1) },
    { Abc_LitNot(t), Abc_LitNot(e), Abc_Var2Lit(f, 0) } }

\* C31: for every MUX object of a query the clauses are the six ITE clauses with
\* t and e inverted per their complement bits (the first four when t and e have
\* the same variable); over all assignments of their variables they hold
\* exactly when f = ITE(i, t, e)
MuxEncoding ==
  (last.op = "visit") =>
    \A n \in last.cnf : n.mux =>
      /\ Len(n.clauses) = (IF Abc_Lit2Var(n.lits[2]) = Abc_Lit2Var(n.lits[3]) THEN 4 ELSE 6)
      /\ AsSets(n.clauses) \subseteq IteClauses(n.var, n.lits[1], n.lits[2], n.lits[3])
      /\ Cardinality(AsSets(n.clauses)) = Len(n.clauses)
      /\ AsSets(SubSeq(n.clauses, 1, 4))
           = { c \in IteClauses(n.var, n.lits[1], n.lits[2], n.lits[3]) :
                 Abc_Lit2Var(n.lits[1]) \in { Abc_Lit2Var(l) : l \in c } }
      /\ \A sa \in [ClauseVars(n.clauses) -> {0, 1}] :
           ClausesHold(sa, n.clauses)
             <=> sa[n.var] = (IF SatLitValue(sa, n.lits[1]) = 1
                              THEN SatLitValue(sa, n.lits[2])
                              ELSE SatLitValue(sa, n.lits[3]))

\* a query with a MUX of six clauses whose then-literal is complemented
MuxOfSixEncoded ==
  /\ last.op = "visit"
  /\ \E n \in last.cnf :
       /\ n.mux /\ Len(n.clauses) = 6
       /\ Abc_LitIsCompl(n.lits[2]) = 1 \/ Abc_LitIsCompl(n.lits[3]) = 1


\* C32: for every AND object of a query that is not a MUX, with the k >= 2
\* leaves of its super-gate, the clauses are k clauses (leaf + !n) and one clause
\* (!leaf_1 + ... + !leaf_k + n); over all assignments of their variables they
\* hold exactly when n is the conjunction of the leaves, and that conjunction
\* is the function of n in pNew
SuperEncoding ==
  (last.op = "visit") =>
    \A n \in last.cnf : ~n.mux =>
      \E k \in { Len(n.leaves) } :
        /\ k >= 2
        /\ Len(n.lits) = k
        /\ Len(n.clauses) = k + 1
        /\ \A j \in 1..k : n.clauses[j] = << n.lits[j], Abc_Var2Lit(n.var, 1) >>
        /\ n.clauses[k + 1] = [j \in 1..(k + 1) |->
                                 IF j <= k THEN Abc_LitNot(n.lits[j])
                                 ELSE Abc_Var2Lit(n.var, 0)]
        /\ \A sa \in [ClauseVars(n.clauses) -> {0, 1}] :
             ClausesHold(sa, n.clauses)
               <=> (sa[n.var] = 1 <=> \A j \in 1..k : SatLitValue(sa, n.lits[j]) = 1)
        /\ \A asg \in Assignments(pAig) :
             \E p \in { NewEvalUpTo(pNew, asg, n.obj) } :
               p[n.obj + 1] = 1 <=> \A j \in 1..k : NewLitValue(p, n.leaves[j]) = 1

\* a query with a super-gate of three leaves, one of them complemented
SuperOfThreeEncoded ==
  /\ last.op = "visit"
  /\ \E n \in last.cnf :
       /\ ~n.mux /\ Len(n.leaves) >= 3
       /\ \E j \in DOMAIN n.leaves : Abc_LitIsCompl(n.leaves[j]) = 1


(***************************************************************************)
(* C33: values are sticky                                                  *)
(***************************************************************************)
\* the step is a visit of the loop of line 862, of object iObj
IsVisit == pc = "visit" /\ last'.op = "visit" /\ iObj' = iObj + 1

\* the visit went past line 870 and hashed the object into pNew
HashedIn(l) == l.what \notin {"marked", "swept", "fanin"}

StickyStep ==
  \* an assigned value of an AND object never changes
  /\ \A i \in AndIds(pAig) : Value[i] # Unassigned => Value'[i] = Value[i]
  /\ IsVisit =>
       \* hashed only with the mark clear, no value and both fanins valued
       /\ HashedIn(last') =>
            /\ ~fMark1[FaninId0(pAig, iObj)] /\ ~fMark1[FaninId1(pAig, iObj)]
            /\ Value[iObj] = Unassigned
            /\ Value[FaninId0(pAig, iObj)] # Unassigned
            /\ Value[FaninId1(pAig, iObj)] # Unassigned
       /\ ~HashedIn(last') => /\ Value'[iObj] = Value[iObj]
                              /\ pNew' = pNew
                              /\ last'.nSolves = 0
       \* an object with a value is neither hashed nor handed to the solver again
       /\ Value[iObj] # Unassigned => last'.what \in {"marked", "swept"}
       \* the value is taken back exactly when the object was disproved
       /\ (HashedIn(last') /\ pc' = "visit") =>
            (Value'[iObj] = Unassigned <=> last'.what = "sat")

\* C33: an AND object is hashed into pNew in a visit only if the mark it takes
\* from its fanins is clear, its value is unassigned and both fanins have
\* values; a value that is assigned at the end of a visit never changes and the
\* object is never handed to the solver again; the value is reset to unassigned
\* only in the visit in which the object was disproved
StickyValues == [][StickyStep]_vars

\* an object proved in an earlier pass is met again in a later pass, with its
\* value, after another object lost its value to a disproof
SweptObjectSkipped ==
  /\ last.op = "visit" /\ last.what = "swept"
  /\ Iter >= 1
  /\ fProved[last.obj] /\ iRepr[last.obj] # GIA_VOID
  /\ cexPairs # {}


(***************************************************************************)
(* C34: the marks of a disproof                                            *)
(***************************************************************************)
\* object j is s or is reached from s through AND objects above lo
RECURSIVE InTfoAbove(_, _, _, _)
InTfoAbove(a, j, s, lo) ==
  \/ j = s
  \/ /\ ObjIsAnd(a, j) /\ j > lo
     /\ InTfoAbove(a, FaninId0(a, j), s, lo) \/ InTfoAbove(a, FaninId1(a, j), s, lo)
\* object j is in the transitive fanout of s (or is s)
InTfo(a, j, s) == InTfoAbove(a, j, s, s)

\* what a visit does to the marks: the mark of the object is taken from its
\* fanins; a disproof marks the object and its AND representative in the passes
\* with Iter <= 5 and nothing later; no other mark changes
MarkStep ==
  IsVisit =>
    \E r \in { last'.repr } :
      \A k \in Objs(pAig) :
        fMark1'[k] =
          IF last'.what = "sat" /\ Iter <= 5 /\ (k = iObj \/ (k = r /\ ObjIsAnd(pAig, r)))
          THEN TRUE
          ELSE IF k = iObj
          THEN fMark1[FaninId0(pAig, iObj)] \/ fMark1[FaninId1(pAig, iObj)]
          ELSE fMark1[k]

\* the marks of the objects visited in this pass come from disproofs of this
\* pass; the constant and the CIs are never marked
MarksOfThisPass ==
  /\ \A k \in Objs(pAig) : ~ObjIsAnd(pAig, k) => ~fMark1[k]
  /\ pc = "visit" =>
       \A j \in AndIds(pAig) : (j < iObj /\ fMark1[j]) =>
         /\ Iter <= 5
         /\ \E pr \in cexPairs : InTfo(pAig, j, pr[2]) \/ InTfo(pAig, j, pr[1])

\* no object of the transitive fanout of an object disproved earlier in this
\* pass, or of its AND representative, is hashed (Iter <= 5)
TfoOfBothSkipped ==
  (last.op = "visit" /\ HashedIn(last) /\ Iter <= 5) =>
    \A pr \in cexPairs : pr[2] # last.obj =>
      /\ ~InTfo(pAig, last.obj, pr[2])
      /\ ObjIsAnd(pAig, pr[1]) => ~InTfo(pAig, last.obj, pr[1])

\* the same, with the fanout of the representative taken through the objects
\* visited after the disproof only
TfoOfMarkedSkipped ==
  (last.op = "visit" /\ HashedIn(last) /\ Iter <= 5) =>
    \A pr \in cexPairs : pr[2] # last.obj =>
      /\ ~InTfo(pAig, last.obj, pr[2])
      /\ ObjIsAnd(pAig, pr[1]) => ~InTfoAbove(pAig, last.obj, pr[1], pr[2])

\* C34, as stated: in the passes with Iter <= 5 a disproof of i against r marks
\* i, and r if r is an AND, and no AND in the transitive fanout of i or of r
\* that is visited later in the pass is hashed or handed to the solver; with
\* Iter > 5 a disproof sets no mark; the marks do not carry over to the next
\* pass, and the constant and the CIs are never marked
TfoSkipAsStated == [][MarkStep]_vars /\ []MarksOfThisPass /\ []TfoOfBothSkipped

\* C34, as the code has it: the same, but of the transitive fanout of r only
\* the objects reached from r through objects visited after the disproof are
\* skipped: an object between r and i was visited before r got its mark
TfoSkipOnMarkedPaths == [][MarkStep]_vars /\ []MarksOfThisPass /\ []TfoOfMarkedSkipped

\* an object above a disproved object and its marked AND representative is
\* skipped for the mark it takes from a fanin
TfoObjectSkipped ==
  /\ last.op = "visit" /\ last.what = "marked"
  /\ \E pr \in cexPairs :
       /\ ObjIsAnd(pAig, pr[1]) /\ fMark1[pr[1]] /\ fMark1[pr[2]]
       /\ last.obj > pr[2]
       /\ InTfo(pAig, last.obj, pr[2]) \/ InTfo(pAig, last.obj, pr[1])


(***************************************************************************)
(* C35: the order of the steps of a sweep iteration                        *)
(***************************************************************************)
\* the words of AND object i are what Cec2_ObjSimAnd gives for the stored words
\* of its fanins
WordsCurrent(sims, i) == sims[i] = Cec2_ObjSimAnd(pAig, sims, i)
InPass == stage = "sweep" /\ pc = "visit"

\* C35, as stated: in every sweep iteration the ANDs are simulated again, the
\* COs of a miter checked and the classes refined between Cec2_ManSimulateCis
\* and the pass over the objects, so that during the pass the words of every
\* AND and the classes agree with the words of the CIs
SimulatedBeforePass ==
  InPass => /\ \A i \in AndIds(pAig) : WordsCurrent(vSims, i)
            /\ PairsEqual(ClassObjs)

StepOrder ==
  stage = "sweep" =>
    \* line 860 is followed by the pass at once: no simulation, no refinement
    /\ (pc = "cis" /\ pc' # "abort") =>
         /\ pc' = "visit" /\ iObj' = FirstAnd(pAig)
         /\ \A i \in AndIds(pAig) : vSims'[i] = vSims[i]
         /\ iRepr' = iRepr /\ pNexts' = pNexts
    \* a visit leaves the words of the ANDs and the classes alone
    /\ IsVisit =>
         /\ \A i \in AndIds(pAig) : vSims'[i] = vSims[i]
         /\ iRepr' = iRepr /\ pNexts' = pNexts
    \* lines 903-908: simulation, refinement and the CO check of a miter come
    \* after the pass, and only after a pass with a disproof
    /\ (pc = "visit" /\ ~IsVisit) => pc' = (IF fDisproved THEN "sim" ELSE "loop")
    /\ pc = "sim" => /\ pc' = "refine"
                     /\ \A i \in AndIds(pAig) : WordsCurrent(vSims', i)
    /\ (pc = "refine" /\ pc' # "refine") =>
         pc' = (IF pPars.fIsMiter THEN "cos" ELSE "loop")
    /\ pc = "cos" => pc' \in {"loop", "destroy"}
    /\ pc = "loop" => pc' = (IF fDisproved THEN "cis" ELSE "destroy")

\* during the pass the words of the ANDs are those of the last simulation:
\* they agree with each other and with the classes, not with the CIs
PassOnLastSimulation ==
  InPass =>
    /\ \A i \in AndIds(pAig) :
         (~ObjIsCi(pAig, FaninId0(pAig, i)) /\ ~ObjIsCi(pAig, FaninId1(pAig, i)))
           => WordsCurrent(vSims, i)
    /\ PairsEqual({ i \in ClassObjs : ~ObjIsCi(pAig, i) })

\* C35, as the code has it: Cec2_ManSimulateCis is followed by the pass over the
\* objects; the ANDs are simulated, the classes refined and the COs of a miter
\* checked after the pass, and only if it disproved something; during the pass
\* the words of the ANDs and the classes are those of the last simulation
SimulatedAfterPass == [][StepOrder]_vars /\ []PassOnLastSimulation

\* the second pass starts with an AND whose words are not those its fanins give
StaleWordsAtPassStart ==
  /\ InPass /\ iObj = FirstAnd(pAig) /\ Iter >= 1
  /\ \E i \in AndIds(pAig) : ~WordsCurrent(vSims, i)

\* the structural test of lines 885-889 or Cec2_ManSweepNode ran in this visit
ComparedWithRepr ==
  /\ last.op = "visit"
  /\ last.what \in {"struct", "assert887", "sat", "unsat", "undec", "badrepr"}

\* C36: whenever the structural test or Cec2_ManSweepNode is run for an object
\* and its representative, in any pass, the Value of the representative is
\* assigned, so its variable is an object of pNew
ReprSweptBeforeUse ==
  ComparedWithRepr =>
    /\ Value[last.repr] # Unassigned
    /\ Abc_Lit2Var(Value[last.repr]) \in 0..(Len(pNew) - 1)

\* C37: when the sweep returns 1, every AND that still has a representative
\* is proved or failed: none is left unchecked because its representative was
\* marked in the pass that hashed it
EveryCandidateSettled ==
  (hasReprs /\ pc = "done" /\ RetValue = 1) =>
    \A i \in AndIds(pAig) : iRepr[i] # GIA_VOID => (fProved[i] \/ fFailed[i])

\* C38: during the sweep every object with an assigned Value has a literal of
\* pNew that computes the object's function of the CIs, and its phase is the
\* phase of the object of pNew complemented by the literal's complement bit
RebuiltFaithful ==
  (stage = "sweep" /\ pNew # << >>) =>
    \A asg \in Assignments(pAig) :
      \A p \in { NewEvalUpTo(pNew, asg, Len(pNew) - 1) } :
        \A e \in { EvalAig(pAig, asg) } :
          \A i \in ClassObjs :
            Value[i] # Unassigned =>
              /\ NewLitValue(p, Value[i]) = e[i]
              /\ asg = AllZero(pAig) => fPhase[i] = NewLitValue(p, Value[i])

\* C39: after every visit of the sweep loop an AND with an assigned Value has
\* both fanins assigned and a proved or failed object has an assigned Value;
\* the assertion of line 871 never fails
ValuesDownwardClosed ==
  (stage = "sweep" /\ last.op = "visit") =>
    /\ \A i \in AndIds(pAig) :
         Value[i] # Unassigned =>
           /\ Value[FaninId0(pAig, i)] # Unassigned
           /\ Value[FaninId1(pAig, i)] # Unassigned
    /\ \A i \in Objs(pAig) : (fProved[i] \/ fFailed[i]) => Value[i] # Unassigned
    /\ last.what # "assert871"

\* in a pass that marks nothing an object was disproved, a fanout of it is
\* skipped for its unassigned fanin, and a proved object keeps its literal
UnsweptFaninSkipped ==
  /\ stage = "sweep" /\ last.op = "visit" /\ last.what = "fanin" /\ Iter > 5
  /\ \E i \in AndIds(pAig) : fProved[i]

\* the loop of line 857 is left after a pass that disproved nothing
LoopLeftAtFixpoint == stage = "sweep" /\ pc = "destroy" /\ ~fDisproved

\* C40: when the loop is left after a pass with no disproof, every AND has an
\* assigned Value and no object has mark1
CompleteRebuild ==
  LoopLeftAtFixpoint =>
    /\ \A i \in AndIds(pAig) : Value[i] # Unassigned
    /\ \A i \in Objs(pAig) : ~fMark1[i]

\* the loop is left after at least one pass that disproved and marked objects
FixpointAfterDisproofs ==
  /\ LoopLeftAtFixpoint /\ Iter >= 2
  /\ \E i \in AndIds(pAig) : iRepr[i] = GIA_VOID /\ Value[i] # Unassigned

====
